---- MODULE Spec2Model ----
(***************************************************************************)
(* Symptom collection orchestrator of MiniUdmAsyncErrorTracing.            *)
(*                                                                         *)
(* The module models Collector.StartCollection (pkg/symptom): preflight    *)
(* validation, the fan-out of the trace, pcap, pybot, log-watcher and      *)
(* completion-monitor goroutines over one sync.WaitGroup, the buffered     *)
(* error channel with its consumer goroutine, and the wg.Wait / close /    *)
(* return tail.  Every goroutine is a process whose position is a "pc"     *)
(* field; a step of Next is one goroutine executing up to its next         *)
(* blocking or shared-memory operation.                                    *)
(*                                                                         *)
(* Time is the number of milliseconds since the exerciser goroutine was    *)
(* started (nothing reads a clock before that, and the session timeout is  *)
(* a ceiling on the exercising phase).                                     *)
(* time.Sleep(d) started at t may return at any instant >= t + d: the Go   *)
(* runtime gives a lower bound only, so a sleeper records its deadline and *)
(* its wake-up step is enabled from the deadline on.  The clock constrains  *)
(* the two sleeps the session's draining depends on (executePybot and      *)
(* Routine 9); the 500 ms sleeps of enableTraces / enablePcap are steps    *)
(* that may end at any time, which only adds behaviours.                   *)
(*                                                                         *)
(* Several specifications share the module and its variables:              *)
(* Spec / FairSpec (a whole StartCollection session), ValidateSpec         *)
(* (preflight validation over a wider range of cluster states), NsSpec     *)
(* (the namespace lookup against a failing cluster API), CliSpec (the      *)
(* symptom command's pods argument and set-up, in both forms), ConfSpec    *)
(* (watcher start-up from the configuration), PatchSpec (Manager.ApplyPatch *)
(* of pkg/patch and the legacy ApplyPatch over a small file system),       *)
(* UtilSpec (the file utilities of pkg/utils), LegSpec /                   *)
(* LegFairSpec (the legacy StartSymptomCollection), StartSpec (a process   *)
(* that runs either a StartCollection session or the legacy                *)
(* StartSymptomCollection from its entry) and CmdSpec / CmdFairSpec        *)
(* (ExecuteCommandWithTimeout).                                            *)
(***************************************************************************)
EXTENDS Integers, Sequences, FiniteSets, TLC

\* ------------------------------------------------------------------ bounds
\* Number of configured log paths (config.Paths.LogPaths); the default list
\* has five entries, the model runs the same loop over fewer paths.
NumWatchers == 2

\* Most ErrorEvents the watchers detect in one run, all paths together (the
\* wall-clock test time.Now().Unix()%10 == 0 can succeed at any number of
\* ticks).
MaxEvents == 3

\* Most deployments the namespace holds in the runs that exercise preflight
\* validation alone.
MaxDeps == 2

\* Most ApplyPatch calls made one after the other on the same node.
MaxCalls == 2

\* Seconds of the wall clock that pass while ApplyPatch calls are made (the
\* backup of utils.BackupFile is named after the second it is taken in).
MaxSeconds == 2

\* Buffer capacity of errorChan.  The source allocates 100 slots
\* (make(chan ErrorEvent, 100)); the model keeps the channel's semantics and
\* scales the capacity so that the full-buffer case is reached.
ChanCap == 2

\* Calls of the file utilities in one run: two, so that a call can repeat the
\* one before it
MaxUtilCalls == 2

\* The legacy StartSymptomCollection, scaled: it has five log watchers, each
\* polling ten times (i = 0..9) and sending its one event in the poll i = 5.
NumLegWatchers == 2
LegPolls == 3
LegSendAt == 1

\* ------------------------------------------------------- program constants
\* errorChan := make(chan string, 100) in StartSymptomCollection
LegChanCap == 100
\* done := make(chan error, 1) in ExecuteCommandWithTimeout
DoneCap == 1

\* time.Sleep(2 * time.Second) in executePybot
SleepPybot == 2000
\* time.Sleep(10 * time.Second) in Routine 9
SleepMonitor == 10000
\* symptom.collection_timeout default "10m"
CollectionTimeout == 600000

Watchers == 1..NumWatchers

\* ----------------------------------------------------------------- strings
\* A Go string is a sequence of one-character strings.
RECURSIVE IndexFrom(_, _, _)
IndexFrom(s, substr, i) ==
    IF i + Len(substr) > Len(s) + 1 THEN 0
    ELSE IF SubSeq(s, i, i + Len(substr) - 1) = substr THEN i
    ELSE IndexFrom(s, substr, i + 1)

\* strings.Contains(s, substr): true for the empty substr
Contains(s, substr) == IndexFrom(s, substr, 1) # 0

\* strings.Split(s, " ") from position i on, cur being the fragment read so
\* far: every space ends a fragment, so n spaces give n + 1 fragments, empty
\* ones included
RECURSIVE SplitFrom(_, _, _)
SplitFrom(s, i, cur) ==
    IF i > Len(s) THEN << cur >>
    ELSE IF s[i] = " " THEN << cur >> \o SplitFrom(s, i + 1, << >>)
    ELSE SplitFrom(s, i + 1, Append(cur, s[i]))

Split(s) == SplitFrom(s, 1, << >>)

\* unicode.IsSpace: in Latin-1 tab, line feed, vertical tab, form feed,
\* carriage return, space, U+0085 and U+00A0; above it the characters of the
\* White_Space table: U+1680, U+2000 to U+200A, U+2028, U+2029, U+202F,
\* U+205F and U+3000 (a character without an escape is written by its name
\* or code point)
WhiteSpace ==
    {" ", "\t", "\n", "\f", "\r", "VT", "NEL", "NBSP",
     "U+1680", "U+2000", "U+2001", "U+2002", "U+2003", "U+2004", "U+2005",
     "U+2006", "U+2007", "U+2008", "U+2009", "U+200A", "U+2028", "U+2029",
     "U+202F", "U+205F", "U+3000"}

\* strings.Fields(s) from position i on: fragments are the maximal runs of
\* characters that are not white space; no fragment is empty
RECURSIVE FieldsFrom(_, _, _)
FieldsFrom(s, i, cur) ==
    IF i > Len(s) THEN (IF Len(cur) > 0 THEN << cur >> ELSE << >>)
    ELSE IF s[i] \in WhiteSpace
         THEN (IF Len(cur) > 0 THEN << cur >> ELSE << >>)
                 \o FieldsFrom(s, i + 1, << >>)
    ELSE FieldsFrom(s, i + 1, Append(cur, s[i]))

Fields(s) == FieldsFrom(s, 1, << >>)

\* -------------------------------------------------------- cluster snapshot
\* Deployment{Name, Status.ReadyReplicas, Spec.Replicas}: an item of the list
\* GetDeployments returns. nil says that Spec.Replicas is a nil pointer.
Dep(n, r, d) == [name |-> n, ready |-> r, desired |-> d, nil |-> FALSE]

NilDep(n, r) == [name |-> n, ready |-> r, desired |-> 0, nil |-> TRUE]

\* What Client.GetDeployment returns for a name when it is asked after the
\* list was taken: the deployment with the counts it has by then, or an error
\* (the API call failed, or the deployment was deleted in between).
Got(r, d) == [err |-> FALSE, ready |-> r, desired |-> d, nil |-> FALSE]

GetFails == [err |-> TRUE, ready |-> 0, desired |-> 0, nil |-> FALSE]

Same(dep) ==
    [err |-> FALSE, ready |-> dep.ready, desired |-> dep.desired,
     nil |-> dep.nil]

\* A cluster nobody changes while it is validated: the list call succeeds and
\* every Get returns the listed deployment.
Cluster(nsExists, deps) ==
    [nsExists |-> nsExists, listOk |-> TRUE, deps |-> deps,
     live |-> [i \in 1..Len(deps) |-> Same(deps[i])]]

UECM == <<"u", "e", "c", "m">>
NIM == <<"n", "i", "m">>
UECM1 == <<"u", "e", "c", "m", "-", "1">>

\* The cluster states and pod arguments a run is started against.
Clusters ==
    { Cluster(FALSE, << Dep(UECM1, 1, 1) >>),
      Cluster(TRUE, << >>),
      Cluster(TRUE, << Dep(UECM1, 0, 1) >>),
      [Cluster(TRUE, << Dep(UECM1, 1, 1) >>) EXCEPT !.listOk = FALSE],
      [Cluster(TRUE, << Dep(UECM1, 1, 1) >>) EXCEPT !.live = << GetFails >>],
      [Cluster(TRUE, << Dep(UECM1, 1, 1) >>) EXCEPT !.live = << Got(0, 1) >>],
      Cluster(TRUE, << Dep(UECM1, 1, 1) >>) }

PodArgs == { << UECM >>, << UECM, NIM >> }

\* Inputs of the runs that exercise preflight validation alone: every list of
\* at most MaxDeps deployments with distinct names (a namespace holds one
\* deployment per name), in any order and replica state, with the namespace
\* present or absent, the list call succeeding or failing, and each Get
\* returning the listed deployment, an error, or the deployment with other
\* counts, against pod lists of zero, one and two fragments.
UECM2 == <<"u", "e", "c", "m", "-", "2">>
NIM1 == <<"n", "i", "m", "-", "1">>

ReplicaStates == { <<0, 1>>, <<1, 1>>, <<1, 2>>, <<2, 2>> }

ListedDeps ==
    { Dep(n, rs[1], rs[2]) : n \in {UECM1, UECM2, NIM1}, rs \in ReplicaStates }
    \cup { NilDep(n, 1) : n \in {UECM1, UECM2, NIM1} }

LiveStates(dep) == { Same(dep), GetFails, Got(0, 1), Got(1, 1) }

DepChoices ==
    UNION { { [dep |-> d, live |-> g] : g \in LiveStates(d) } : d \in ListedDeps }

DepLists ==
    { d \in UNION { [1..k -> DepChoices] : k \in 0..MaxDeps } :
        \A i, j \in 1..Len(d) : d[i].dep.name = d[j].dep.name => i = j }

ValClusters ==
    { [nsExists |-> b, listOk |-> l,
       deps |-> [i \in 1..Len(d) |-> d[i].dep],
       live |-> [i \in 1..Len(d) |-> d[i].live]]
      : b \in BOOLEAN, l \in BOOLEAN, d \in DepLists }

\* The clusters of ValClusters with at most one deployment
SmallClusters == { c \in ValClusters : Len(c.deps) <= 1 }

ValPodArgs == { << >>, << UECM >>, << UECM, NIM >>, << NIM, UECM >> }

\* Client.NamespaceExists: (exists, nil) -- a failed lookup is (false, nil)
NamespaceExists(cl) == cl.nsExists

\* What the cluster API does with a request: it answers, it cannot be reached,
\* or it refuses the caller
ApiStates == {"up", "unreachable", "forbidden"}

\* Client.GetNamespace: the namespace and nil, or "failed to get namespace"
\* wrapping the cause. err is the cause, "nil" for none.
GetNamespace(cl, api) ==
    IF api = "unreachable" THEN [found |-> FALSE, err |-> "Unreachable"]
    ELSE IF api = "forbidden" THEN [found |-> FALSE, err |-> "Forbidden"]
    ELSE IF ~cl.nsExists THEN [found |-> FALSE, err |-> "NotFound"]
    ELSE [found |-> TRUE, err |-> "nil"]

\* NamespaceExists that hands the error of GetNamespace on to its caller
NamespaceExistsCall_ReturnsError(cl, api) ==
    [exists |-> GetNamespace(cl, api).found, err |-> GetNamespace(cl, api).err]

\* Client.NamespaceExists as called: (false, nil) on any error of
\* GetNamespace, (true, nil) otherwise
NamespaceExistsCall(cl, api) ==
    IF GetNamespace(cl, api).err # "nil"
    THEN [exists |-> FALSE, err |-> "nil"]
    ELSE [exists |-> TRUE, err |-> "nil"]

\* Collector.validateNamespace on the result of the call: the error of
\* NamespaceExists if any, "namespace does not exist", or "ok"
validateNamespaceCall(cl, api) ==
    LET r == NamespaceExistsCall(cl, api)
    IN  IF r.err # "nil" THEN r.err
        ELSE IF ~r.exists THEN "namespace does not exist"
        ELSE "ok"

\* Client.GetDeployments: the items and nil, or "failed to list deployments"
GetDeployments(cl) ==
    IF cl.listOk THEN [items |-> cl.deps, err |-> "nil"]
    ELSE [items |-> << >>, err |-> "failed to list deployments"]

\* Client.GetDeployment for the name of a listed deployment
GetDeployment(cl, name) ==
    cl.live[CHOOSE i \in 1..Len(cl.deps) : cl.deps[i].name = name]

\* Client.IsDeploymentReady: fetches the deployment again; (false, err) when
\* the fetch fails, a nil pointer dereference when Spec.Replicas is nil, else
\* whether the fetched ReadyReplicas reaches the fetched Spec.Replicas
IsDeploymentReady(cl, name) ==
    LET deployment == GetDeployment(cl, name)
    IN  IF deployment.err
        THEN [ready |-> FALSE, err |-> "failed to get deployment"]
        ELSE IF deployment.nil
        THEN [ready |-> FALSE, err |-> "panic"]
        ELSE [ready |-> ~(deployment.ready < deployment.desired),
              err |-> "nil"]

\* Collector.validateNamespace: "ok" or the error
validateNamespace(cl) ==
    IF ~NamespaceExists(cl) THEN "namespace does not exist" ELSE "ok"

\* Variant of the inner loop that accepts the first deployment whose name
\* contains the pod, ready or not
RECURSIVE MatchPod_SkipsReadiness(_, _, _)
MatchPod_SkipsReadiness(cl, pod, i) ==
    IF i > Len(cl.deps) THEN "deployment not found"
    ELSE IF Contains(cl.deps[i].name, pod) THEN "ok"
    ELSE MatchPod_SkipsReadiness(cl, pod, i + 1)

\* inner loop of validateDeployments for one pod, from deployment index i:
\* at the first deployment whose name contains the pod, the error of the
\* readiness check, "not ready", or found and ready
RECURSIVE MatchPod(_, _, _)
MatchPod(cl, pod, i) ==
    IF i > Len(cl.deps) THEN "deployment not found"
    ELSE IF Contains(cl.deps[i].name, pod)
         THEN LET r == IsDeploymentReady(cl, cl.deps[i].name)
              IN  IF r.err = "panic" THEN "panic"
                  ELSE IF r.err # "nil"
                  THEN "failed to check deployment readiness"
                  ELSE IF ~r.ready THEN "deployment is not ready"
                  ELSE "ok"
         ELSE MatchPod(cl, pod, i + 1)

\* Variant of the outer loop that reports a pod without deployment before any
\* deployment that is not ready
RECURSIVE ValidatePods_NotFoundFirst(_, _, _)
ValidatePods_NotFoundFirst(cl, podList, k) ==
    IF \E j \in k..Len(podList) :
          MatchPod(cl, podList[j], 1) = "deployment not found"
    THEN "deployment not found"
    ELSE IF \E j \in k..Len(podList) : MatchPod(cl, podList[j], 1) # "ok"
    THEN "deployment is not ready"
    ELSE "ok"

\* Collector.validateDeployments: outer loop over pods, first error wins
RECURSIVE ValidatePods(_, _, _)
ValidatePods(cl, podList, k) ==
    IF k > Len(podList) THEN "ok"
    ELSE LET r == MatchPod(cl, podList[k], 1)
         IN  IF r # "ok" THEN r ELSE ValidatePods(cl, podList, k + 1)

\* Collector.validateDeployments: the error of the list call before any pod
\* is looked at, else the loops
validateDeployments(cl, podList) ==
    IF GetDeployments(cl).err # "nil" THEN GetDeployments(cl).err
    ELSE ValidatePods(cl, podList, 1)

\* inner loop of the legacy validateDeployments: it judges the listed item
RECURSIVE LegacyMatchPod(_, _, _)
LegacyMatchPod(cl, pod, i) ==
    IF i > Len(cl.deps) THEN "deployment not found"
    ELSE IF Contains(cl.deps[i].name, pod)
         THEN (IF cl.deps[i].nil THEN "panic"
               ELSE IF cl.deps[i].ready < cl.deps[i].desired
               THEN "deployment is not ready"
               ELSE "ok")
         ELSE LegacyMatchPod(cl, pod, i + 1)

\* legacy validateDeployments of StartSymptomCollection
RECURSIVE LegacyValidatePods(_, _, _)
LegacyValidatePods(cl, podList, k) ==
    IF k > Len(podList) THEN "ok"
    ELSE LET r == LegacyMatchPod(cl, podList[k], 1)
         IN  IF r # "ok" THEN r ELSE LegacyValidatePods(cl, podList, k + 1)

LegacyValidateDeployments(cl, podList) ==
    IF ~cl.listOk THEN "failed to list deployments"
    ELSE LegacyValidatePods(cl, podList, 1)

\* --------------------------------------------------------------- file system
\* The paths ApplyPatch touches: the patch file given by the caller, its copy
\* <tcnVol>/<service>/<base name>, the library <lib64>/<base name>, and the
\* backups: <library>.backup.<YYYYMMDD-HHMMSS> of utils.BackupFile, one path
\* per second of the clock, and <library>.backup of the legacy BackupFile.
PatchPath == << "patch", 0 >>
TcnVolPatchPath == << "tcnVol", 0 >>
LibPath == << "lib64", 0 >>
BackupPath(sec) == << "backup", sec >>
LegacyBackupPath == << "backup", 0 >>

Paths ==
    { PatchPath, TcnVolPatchPath, LibPath, LegacyBackupPath }
    \cup { BackupPath(sec) : sec \in 1..MaxSeconds }

\* What a path holds: nothing, a regular file with its content, or a
\* symbolic link with its target.  Contents are whole-file values; "" is an
\* empty (truncated) file.
Absent == [kind |-> "absent", data |-> "", to |-> << >>]
File(d) == [kind |-> "file", data |-> d, to |-> << >>]
Link(t) == [kind |-> "link", data |-> "", to |-> t]
\* a path whose lookup fails with an error other than "not exist" (search
\* permission denied on a parent directory, a parent that is a regular file)
Denied == [kind |-> "denied", data |-> "", to |-> << >>]

\* os.Stat, os.Open and os.Create follow a symbolic link to its target
Target(f, path) == IF f[path].kind = "link" THEN f[path].to ELSE path

\* utils.FileExists: os.Stat does not report "not exist" (a link whose
\* target is missing does)
FileExists(f, path) == f[Target(f, path)].kind # "absent"

\* os.Open succeeds: the path leads to a regular file
Openable(f, path) == f[Target(f, path)].kind = "file"

\* md5 of a content, as the hex string of the digest
MD5Of(d) == << "md5", d >>
NoHash == << >>

\* CalculateMD5 that hashes whatever is at the path, openable or not
CalculateMD5_NeverFails(f, path, readable) ==
    [md5 |-> MD5Of(f[Target(f, path)].data), err |-> FALSE]

\* utils.CalculateMD5: (hash, err); readable is whether opening and reading
\* the file goes through
CalculateMD5(f, path, readable) ==
    IF ~Openable(f, path) \/ ~readable
    THEN [md5 |-> NoHash, err |-> TRUE]
    ELSE [md5 |-> MD5Of(f[Target(f, path)].data), err |-> FALSE]

\* utils.VerifyChecksum: the file's MD5 compared with the expected one; an
\* error of CalculateMD5 is returned with false
VerifyChecksum(f, path, expectedMD5, readable) ==
    LET actual == CalculateMD5(f, path, readable)
    IN  IF actual.err
        THEN [ok |-> FALSE, err |-> TRUE]
        ELSE [ok |-> actual.md5 = expectedMD5, err |-> FALSE]

\* How an operation on files can go: through, or failing at one of its calls
CopyOutcomes ==
    {"ok", "openFails", "createFails", "copyFails", "copyCut", "syncFails"}
SymlinkOutcomes == {"ok", "removeFails", "mkdirFails", "symlinkFails"}

\* what a copy that broke off has written: a proper part of the content
Cut(d) == IF d = "" THEN "" ELSE d \o "~cut"

\* utils.CopyFile: os.Open(src), MkdirAll, os.Create(dst) (truncates), then
\* io.Copy and Sync.  io.Copy failing leaves the destination with what was
\* written by then (nothing, or a part); Sync failing returns the error with
\* the whole content written.  io.Copy reads the source after the destination
\* was truncated, so a destination that is the source itself is copied empty.
CopyFile(f, src, dst, out) ==
    LET created == [f EXCEPT ![Target(f, dst)] = File("")]
        data == created[Target(f, src)].data
        whole == [created EXCEPT ![Target(f, dst)] = File(data)]
        part == [created EXCEPT ![Target(f, dst)] = File(Cut(data))]
    IN  IF \/ ~Openable(f, src)
           \/ f[Target(f, dst)].kind = "denied"
           \/ out \in {"openFails", "createFails"}
        THEN [fs |-> f, err |-> TRUE]
        ELSE IF out = "copyFails" THEN [fs |-> created, err |-> TRUE]
        ELSE IF out = "copyCut" THEN [fs |-> part, err |-> TRUE]
        ELSE IF out = "syncFails" THEN [fs |-> whole, err |-> TRUE]
        ELSE [fs |-> whole, err |-> FALSE]

\* legacy CopyFile: the same without the Sync, so nothing fails once io.Copy
\* went through
LegacyCopyFile(f, src, dst, out) ==
    CopyFile(f, src, dst, IF out = "syncFails" THEN "ok" ELSE out)

\* utils.BackupFile: copy of the file to <path>.backup.<timestamp>, the
\* timestamp being the second sec of the clock; the error of CopyFile is
\* returned whatever was written
BackupFile(f, path, sec, out) ==
    IF ~FileExists(f, path) THEN [fs |-> f, err |-> TRUE]
    ELSE CopyFile(f, path, BackupPath(sec), out)

\* legacy BackupFile: copy of the file to <path>.backup
LegacyBackupFile(f, path, out) ==
    IF ~FileExists(f, path) THEN [fs |-> f, err |-> TRUE]
    ELSE LegacyCopyFile(f, path, LegacyBackupPath, out)

\* utils.CreateSymlink: os.Remove of the link path if FileExists says it is
\* there, MkdirAll of the parent, os.Symlink (which fails on an occupied path)
CreateSymlink(f, target, linkPath, out) ==
    LET removing == FileExists(f, linkPath)
        removeFails == out = "removeFails" \/ f[linkPath].kind = "denied"
        f1 == IF removing /\ ~removeFails
              THEN [f EXCEPT ![linkPath] = Absent] ELSE f
    IN  IF removing /\ removeFails THEN [fs |-> f, err |-> TRUE]
        ELSE IF out = "mkdirFails" THEN [fs |-> f1, err |-> TRUE]
        ELSE IF out = "symlinkFails" \/ f1[linkPath].kind # "absent"
        THEN [fs |-> f1, err |-> TRUE]
        ELSE [fs |-> [f1 EXCEPT ![linkPath] = Link(target)], err |-> FALSE]

\* Manager.updateLibrary: the backup (if enabled) may fail with a warning
\* only, then the library path becomes a link to the tcnVol copy
updateLibrary(f, sourcePath, libPath, sec, enabled, bout, sout) ==
    LET f1 == IF enabled THEN BackupFile(f, libPath, sec, bout).fs ELSE f
    IN  CreateSymlink(f1, sourcePath, libPath, sout)

\* legacy CreateSymlink: os.Remove if FileExists, then os.Symlink, without
\* MkdirAll of the parent
LegacyCreateSymlink(f, target, linkPath, out) ==
    CreateSymlink(f, target, linkPath,
                  IF out = "mkdirFails" THEN "ok" ELSE out)

\* legacy updateLibrary: a failed backup is returned as an error before any
\* link is made
LegacyUpdateLibrary(f, sourcePath, libPath, bout, sout) ==
    LET b == LegacyBackupFile(f, libPath, bout)
    IN  IF b.err THEN [fs |-> b.fs, err |-> TRUE]
        ELSE LegacyCreateSymlink(b.fs, sourcePath, libPath, sout)

\* ------------------------------------------------------------------- state
VARIABLES
    cluster,    \* namespace / deployments the k8s client reports
    pods,       \* the pods argument of StartCollection
    ctxDone,    \* ctx.Done() is closed (never for context.Background())
    now,        \* milliseconds since the exerciser was started
    orch,       \* position of StartCollection itself
    result,     \* what StartCollection returned: "none" while it runs, "nil",
                \* or << wrapping message, wrapped error >>
    wg,         \* sync.WaitGroup counter
    chanState,  \* errorChan: "none", "open", "closed"
    closeCount, \* number of close(errorChan) executed
    errorChan,  \* buffered ErrorEvents, oldest first
    trace,      \* Routine 1
    pcap,       \* Routine 2
    pybot,      \* Routine 3
    watcher,    \* Routines 4-8, one per log path
    nextPath,   \* index of the range loop over logPaths
    consumer,   \* error monitoring goroutine
    report,     \* per source, the events the consumer has logged, in order
    mon,        \* Routine 9
    \* patch manager (apply-patch)
    fs,             \* the files ApplyPatch works on, by path
    backupEnabled,  \* config.Patch.BackupEnabled
    ap,             \* position and locals of Manager.ApplyPatch, and the
                    \* files as they were when it was called (pre)
    apResult,       \* what the last ApplyPatch call returned
    steps,          \* the steps the current ApplyPatch call has performed
    calls,          \* number of ApplyPatch calls made so far
    \* file utilities and collector configuration
    util,           \* the last call of a file utility: arguments, the files
                    \* before it (pre) and what it returned
    conf,           \* the collector configuration and the watchers started
                    \* from it
    cli,            \* the symptom command: its pods argument and how far
                    \* it got
    ns,             \* the namespace lookup of validateNamespace: the state of
                    \* the cluster API and what each call returned
    leg,            \* the legacy StartSymptomCollection: its tasks, wait
                    \* group and channel
    cmd             \* a call of ExecuteCommandWithTimeout: caller, worker
                    \* goroutine, timer and result channel

collectorVars ==
    << cluster, pods, ctxDone, now, orch, result, wg, chanState,
       closeCount, errorChan, trace, pcap, pybot, watcher, nextPath,
       consumer, report, mon >>

patchVars == << fs, backupEnabled, ap, apResult, steps, calls >>

extVars == << ns, leg, cmd >>

auxVars == << util, conf, cli, extVars >>

vars == << collectorVars, patchVars, auxVars >>

inputVars == << cluster, pods >>
taskVars == << trace, pcap, pybot, watcher, mon >>
chanVars == << chanState, closeCount, errorChan >>

\* ErrorEvent{Timestamp, Source, Message}: Source is the watcher's path, the
\* timestamp is abstracted to the per-source sequence number of the event
\* (Message is a function of Source).
ErrorEvent(w, n) == [source |-> w, seq |-> n]

NotStarted == [pc |-> "none", idx |-> 0, wake |-> 0]

\* ApplyPatch not called: which of the two ApplyPatch functions the call is
\* (legacy), whether it found the tcnVol copy missing, the last second read
\* from the clock, the two hashes, and the files on entry
ApIdle(f) ==
    [pc |-> "idle", legacy |-> FALSE, missing |-> FALSE, sec |-> 1,
     patchMD5 |-> NoHash, existingMD5 |-> NoHash, pre |-> f]

\* The patch manager before any ApplyPatch call, on a node without files
PatchIdle ==
    /\ fs = [path \in Paths |-> Absent]
    /\ backupEnabled = TRUE
    /\ ap = ApIdle(fs)
    /\ apResult = "none"
    /\ steps = << >>
    /\ calls = 0

\* No file utility called yet
UtilIdle ==
    [op |-> "none", a |-> << >>, b |-> << >>, out |-> "ok",
     pre |-> [path \in Paths |-> Absent], err |-> FALSE, ok |-> FALSE,
     md5 |-> NoHash, expected |-> NoHash, prevSame |-> FALSE,
     prevErr |-> FALSE, n |-> 0]

\* No watcher started, nothing configured
ConfIdle ==
    [pc |-> "idle", logPaths |-> << >>, keywords |-> << >>, interval |-> 0,
     started |-> << >>]

\* The symptom command not run
CliIdle ==
    [pc |-> "idle", legacy |-> FALSE, arg |-> << >>, setup |-> "ok",
     err |-> "nil"]

\* No namespace looked up
NsIdle ==
    [pc |-> "idle", api |-> "up", got |-> "nil", exists |-> FALSE,
     err |-> "nil"]

\* The legacy command not run
LegIdle ==
    [pc |-> "idle", next |-> 1, wg |-> 0, chan |-> << >>, closes |-> 0,
     trace |-> [pc |-> "none", idx |-> 0],
     pcap |-> [pc |-> "none", idx |-> 0],
     pybot |-> "none", mon |-> "none",
     w |-> [x \in 1..NumLegWatchers |->
              [pc |-> "none", i |-> 0, sent |-> 0]],
     consumer |-> "none", logged |-> << >>, fatal |-> << >>,
     arg |-> << >>, setup |-> "ok"]

\* No command executed
CmdIdle ==
    [caller |-> "idle", worker |-> "none", proc |-> "none",
     timer |-> "none", done |-> << >>, output |-> "", err |-> "nil",
     ret |-> [out |-> "", err |-> "nil"],
     startOk |-> TRUE, status |-> "nil", text |-> "", spawns |-> FALSE,
     child |-> "none"]

ExtIdle ==
    /\ ns = NsIdle
    /\ leg = LegIdle
    /\ cmd = CmdIdle

AuxIdle ==
    /\ util = UtilIdle
    /\ conf = ConfIdle
    /\ cli = CliIdle
    /\ ExtIdle

\* State of a StartCollection call on entry, whatever its arguments
Entry ==
    /\ ctxDone = FALSE
    /\ now = 0
    /\ orch = "validateNamespace"
    /\ result = "none"
    /\ wg = 0
    /\ chanState = "none"
    /\ closeCount = 0
    /\ errorChan = << >>
    /\ trace = NotStarted
    /\ pcap = NotStarted
    /\ pybot = NotStarted
    /\ mon = NotStarted
    /\ watcher = [w \in Watchers |->
                    [pc |-> "none", sent |-> 0, detected |-> 0]]
    /\ nextPath = 1
    /\ consumer = "none"
    /\ report = [w \in Watchers |-> << >>]

Init ==
    /\ cluster \in Clusters
    /\ pods \in PodArgs
    /\ Entry
    /\ PatchIdle
    /\ AuxIdle

\* ------------------------------------------------------------ StartCollection
\* if err := c.validateNamespace(...); err != nil { return ... }
OrchValidateNamespace ==
    /\ orch = "validateNamespace"
    /\ LET err == validateNamespace(cluster)
       IN  IF err # "ok"
           THEN /\ orch' = "failed"
                /\ result' = << "namespace validation failed", err >>
           ELSE /\ orch' = "validateDeployments"
                /\ UNCHANGED result
    /\ UNCHANGED << auxVars, patchVars, inputVars, ctxDone, now, wg, chanVars, taskVars, nextPath,
                    consumer, report >>

\* Variant of the deployment check that logs the error and carries on
OrchValidateDeployments_IgnoresError ==
    /\ orch = "validateDeployments"
    /\ orch' = "makeChan"
    /\ UNCHANGED << auxVars, patchVars, inputVars, ctxDone, now, result, wg, chanVars, taskVars,
                    nextPath, consumer, report >>

\* if err := c.validateDeployments(...); err != nil { return ... }
OrchValidateDeployments ==
    /\ orch = "validateDeployments"
    /\ LET err == validateDeployments(cluster, pods)
       IN  IF err = "panic"
           THEN /\ orch' = "crashed"
                /\ UNCHANGED result
           ELSE IF err # "ok"
           THEN /\ orch' = "failed"
                /\ result' = << "deployment validation failed", err >>
           ELSE /\ orch' = "makeChan"
                /\ UNCHANGED result
    /\ UNCHANGED << auxVars, patchVars, inputVars, ctxDone, now, wg, chanVars, taskVars, nextPath,
                    consumer, report >>

\* legacy StartSymptomCollection: if err := validateDeployments(...);
\* err != nil { log.Fatalf("Deployment validation failed: %v", err) }
LegacyValidateDeploymentsStep ==
    /\ orch = "validateDeployments"
    /\ LET err == LegacyValidateDeployments(cluster, pods)
       IN  IF err = "panic"
           THEN /\ orch' = "crashed"
                /\ UNCHANGED result
           ELSE IF err # "ok"
           THEN /\ orch' = "failed"
                /\ result' = << "deployment validation failed", err >>
           ELSE /\ orch' = "makeChan"
                /\ UNCHANGED result
    /\ UNCHANGED << auxVars, patchVars, inputVars, ctxDone, now, wg, chanVars, taskVars, nextPath,
                    consumer, report >>

\* var wg sync.WaitGroup; errorChan := make(chan ErrorEvent, 100)
OrchMakeChan ==
    /\ orch = "makeChan"
    /\ wg' = 0
    /\ chanState' = "open"
    /\ errorChan' = << >>
    /\ orch' = "startTraces"
    /\ UNCHANGED << auxVars, patchVars, inputVars, ctxDone, now, result, closeCount, taskVars,
                    nextPath, consumer, report >>

\* A goroutine entering "for _, pod := range pods { Sleep(500ms) }": in the
\* sleep of its first iteration, or past the loop when the list is empty.
EnableLoopStart ==
    IF Len(pods) = 0 THEN [pc |-> "exit", idx |-> 0, wake |-> 0]
    ELSE [pc |-> "sleep", idx |-> 1, wake |-> 0]

\* Routine 1: wg.Add(1); go func() { defer wg.Done(); c.enableTraces(...) }()
OrchStartTraces ==
    /\ orch = "startTraces"
    /\ wg' = wg + 1
    /\ trace' = EnableLoopStart
    /\ orch' = "startPcap"
    /\ UNCHANGED << auxVars, patchVars, inputVars, ctxDone, now, result, chanVars, pcap, pybot,
                    watcher, mon, nextPath, consumer, report >>

\* Routine 2: wg.Add(1); go func() { defer wg.Done(); c.enablePcap(...) }()
OrchStartPcap ==
    /\ orch = "startPcap"
    /\ wg' = wg + 1
    /\ pcap' = EnableLoopStart
    /\ orch' = "startPybot"
    /\ UNCHANGED << auxVars, patchVars, inputVars, ctxDone, now, result, chanVars, trace, pybot,
                    watcher, mon, nextPath, consumer, report >>

\* Variant of Routine 3 that starts the goroutine without wg.Add(1)
OrchStartPybot_NoAdd ==
    /\ orch = "startPybot"
    /\ pybot' = [pybot EXCEPT !.pc = "sleep", !.wake = now + SleepPybot]
    /\ orch' = "startWatchers"
    /\ UNCHANGED << auxVars, patchVars, inputVars, ctxDone, now, result, wg, chanVars, trace, pcap,
                    watcher, mon, nextPath, consumer, report >>

\* Routine 3: wg.Add(1); go func() { defer wg.Done(); c.executePybot(ctx) }()
OrchStartPybot ==
    /\ orch = "startPybot"
    /\ wg' = wg + 1
    /\ pybot' = [pc |-> "sleep", idx |-> 0, wake |-> now + SleepPybot]
    /\ orch' = "startWatchers"
    /\ UNCHANGED << auxVars, patchVars, inputVars, ctxDone, now, result, chanVars, trace, pcap,
                    watcher, mon, nextPath, consumer, report >>

\* Variant of the watcher loop that starts the goroutine without wg.Add(1)
OrchStartWatcher_NoAdd ==
    /\ orch = "startWatchers"
    /\ IF nextPath <= NumWatchers
       THEN /\ watcher' = [watcher EXCEPT ![nextPath].pc = "select"]
            /\ nextPath' = nextPath + 1
            /\ UNCHANGED orch
       ELSE /\ orch' = "startConsumer"
            /\ UNCHANGED << watcher, nextPath >>
    /\ UNCHANGED << auxVars, patchVars, inputVars, ctxDone, now, result, wg, chanVars, trace, pcap,
                    pybot, mon, consumer, report >>

\* Routines 4-8: one iteration of "for _, logPath := range logPaths", or the
\* end of the loop
OrchStartWatcher ==
    /\ orch = "startWatchers"
    /\ IF nextPath <= NumWatchers
       THEN /\ wg' = wg + 1
            /\ watcher' = [watcher EXCEPT ![nextPath].pc = "select"]
            /\ nextPath' = nextPath + 1
            /\ UNCHANGED orch
       ELSE /\ orch' = "startConsumer"
            /\ UNCHANGED << wg, watcher, nextPath >>
    /\ UNCHANGED << auxVars, patchVars, inputVars, ctxDone, now, result, chanVars, trace, pcap,
                    pybot, mon, consumer, report >>

\* Error monitoring: go func() { for event := range errorChan { ... } }()
OrchStartConsumer ==
    /\ orch = "startConsumer"
    /\ consumer' = "range"
    /\ orch' = "startMonitor"
    /\ UNCHANGED << auxVars, patchVars, inputVars, ctxDone, now, result, wg, chanVars, taskVars,
                    nextPath, report >>

\* Variant of Routine 9 that starts the goroutine without wg.Add(1)
OrchStartMonitor_NoAdd ==
    /\ orch = "startMonitor"
    /\ mon' = [pc |-> "sleep", idx |-> 0, wake |-> now + SleepMonitor]
    /\ orch' = "wait"
    /\ UNCHANGED << auxVars, patchVars, inputVars, ctxDone, now, result, wg, chanVars, trace, pcap,
                    pybot, watcher, nextPath, consumer, report >>

\* Routine 9: wg.Add(1); go func() { defer wg.Done(); Sleep(10s); cleanup }()
OrchStartMonitor ==
    /\ orch = "startMonitor"
    /\ wg' = wg + 1
    /\ mon' = [pc |-> "sleep", idx |-> 0, wake |-> now + SleepMonitor]
    /\ orch' = "wait"
    /\ UNCHANGED << auxVars, patchVars, inputVars, ctxDone, now, result, chanVars, trace, pcap,
                    pybot, watcher, nextPath, consumer, report >>

\* Variant of the barrier that lets the caller through with one task left
WaitReturns_OneLeft(counter) == counter <= 1

\* sync.WaitGroup.Wait returns when the counter is zero
WaitReturns(counter) == counter = 0

\* wg.Wait()
OrchWait ==
    /\ orch = "wait"
    /\ WaitReturns(wg)
    /\ orch' = "close"
    /\ UNCHANGED << auxVars, patchVars, inputVars, ctxDone, now, result, wg, chanVars, taskVars,
                    nextPath, consumer, report >>

\* close(errorChan): closing a closed channel panics
OrchClose ==
    /\ orch = "close"
    /\ IF chanState = "closed"
       THEN orch' = "panic" /\ UNCHANGED << chanState, closeCount >>
       ELSE /\ chanState' = "closed"
            /\ closeCount' = closeCount + 1
            /\ orch' = "return"
    /\ UNCHANGED << auxVars, patchVars, inputVars, ctxDone, now, result, wg, errorChan, taskVars,
                    nextPath, consumer, report >>

\* duration := time.Since(...); c.logger.Info(...); return nil
OrchReturn ==
    /\ orch = "return"
    /\ orch' = "returned"
    /\ result' = "nil"
    /\ UNCHANGED << auxVars, patchVars, inputVars, ctxDone, now, wg, chanVars, taskVars, nextPath,
                    consumer, report >>

\* Variant of the CLI that reports success whatever StartCollection returned
ExitStatus_IgnoresError(res) == IF res = "nil" THEN 0 ELSE 0

\* Exit status of the symptom-collection CLI for the value StartCollection
\* returned: RunE wraps a non-nil error and main calls os.Exit(1) on it,
\* otherwise main returns (status 0)
ExitStatus(res) == IF res = "nil" THEN 0 ELSE 1

\* ----------------------------------------------------------------- goroutines
\* One wake-up of the loop "for _, pod := range pods { Sleep(500ms) }": the
\* sleep of iteration idx is over; start the next one or, after the last,
\* return (the goroutine's deferred wg.Done is counted by the caller below).
EnableLoopStep(task) ==
    IF task.pc = "sleep" /\ task.idx < Len(pods)
    THEN [task EXCEPT !.idx = @ + 1]
    ELSE [task EXCEPT !.pc = "done"]

\* Routine 1 body: c.enableTraces(ctx, config.Pods); defer wg.Done()
TraceStep ==
    /\ trace.pc \in {"sleep", "exit"}
    /\ trace' = EnableLoopStep(trace)
    /\ wg' = IF trace'.pc = "done" THEN wg - 1 ELSE wg
    /\ UNCHANGED << auxVars, patchVars, inputVars, ctxDone, now, orch, result, chanVars, pcap,
                    pybot, watcher, mon, nextPath, consumer, report >>

\* Routine 2 body: c.enablePcap(ctx, config.Pods); defer wg.Done()
PcapStep ==
    /\ pcap.pc \in {"sleep", "exit"}
    /\ pcap' = EnableLoopStep(pcap)
    /\ wg' = IF pcap'.pc = "done" THEN wg - 1 ELSE wg
    /\ UNCHANGED << auxVars, patchVars, inputVars, ctxDone, now, orch, result, chanVars, trace,
                    pybot, watcher, mon, nextPath, consumer, report >>

\* Routine 3 body: executePybot's Sleep(2s) is over; defer wg.Done()
PybotDone ==
    /\ pybot.pc = "sleep"
    /\ now >= pybot.wake
    /\ pybot' = [pybot EXCEPT !.pc = "done"]
    /\ wg' = wg - 1
    /\ UNCHANGED << auxVars, patchVars, inputVars, ctxDone, now, orch, result, chanVars, trace,
                    pcap, watcher, mon, nextPath, consumer, report >>

\* Routine 9 may leave its sleep: the fixed delay is all it waits for
MonitorAwake(m, t) == m.pc = "sleep" /\ t >= m.wake

\* Routine 9: Sleep(10s) is over; "Test completed, starting cleanup";
\* c.cleanup(ctx, config) is entered
MonitorStartCleanup ==
    /\ MonitorAwake(mon, now)
    /\ mon' = [mon EXCEPT !.pc = "cleanup"]
    /\ UNCHANGED << auxVars, patchVars, inputVars, ctxDone, now, orch, result, wg, chanVars, trace,
                    pcap, pybot, watcher, nextPath, consumer, report >>

\* Collector.cleanup: four log lines, no signal to any goroutine; then the
\* deferred wg.Done of Routine 9
MonitorCleanupDone ==
    /\ mon.pc = "cleanup"
    /\ mon' = [mon EXCEPT !.pc = "done"]
    /\ wg' = wg - 1
    /\ UNCHANGED << auxVars, patchVars, inputVars, ctxDone, now, orch, result, chanVars, trace,
                    pcap, pybot, watcher, nextPath, consumer, report >>

\* ---------------------------------------------------------------- log content
\* keywords of watchLogFile: config.Symptom.ErrorKeywords, by default
\* "error", "ERROR", "fatal", "FATAL", "exception", "EXCEPTION", "panic",
\* "PANIC"
Keywords ==
    { <<"e", "r", "r", "o", "r">>, <<"E", "R", "R", "O", "R">>,
      <<"f", "a", "t", "a", "l">>, <<"F", "A", "T", "A", "L">>,
      <<"e", "x", "c", "e", "p", "t", "i", "o", "n">>,
      <<"E", "X", "C", "E", "P", "T", "I", "O", "N">>,
      <<"p", "a", "n", "i", "c">>, <<"P", "A", "N", "I", "C">> }

\* The defaults of the collector. logPaths of StartCollection when
\* config.Paths.LogPaths is empty:
DefaultLogPaths ==
    << "/cmconfig.log", "/logstore/TspCore", "/RTPTraceError", "/Envoy",
       "/dumplog" >>

\* keywords of watchLogFile when config.Symptom.ErrorKeywords is empty, in the
\* order of the literal:
DefaultKeywords ==
    << <<"e", "r", "r", "o", "r">>, <<"E", "R", "R", "O", "R">>,
       <<"f", "a", "t", "a", "l">>, <<"F", "A", "T", "A", "L">>,
       <<"e", "x", "c", "e", "p", "t", "i", "o", "n">>,
       <<"E", "X", "C", "E", "P", "T", "I", "O", "N">>,
       <<"p", "a", "n", "i", "c">>, <<"P", "A", "N", "I", "C">> >>

\* interval of watchLogFile when config.Symptom.CheckInterval is zero:
\* 1 * time.Second, in milliseconds
DefaultCheckInterval == 1000

\* logPaths := c.config.Paths.LogPaths; if len(logPaths) == 0 { ... }
LogPathsOf(configured) ==
    IF Len(configured) = 0 THEN DefaultLogPaths ELSE configured

\* keywords that stay as configured, empty or not
KeywordsOf_NoDefault(configured) ==
    IF Len(configured) = 0 THEN configured ELSE configured

\* keywords := c.config.Symptom.ErrorKeywords; if len(keywords) == 0 { ... }
KeywordsOf(configured) ==
    IF Len(configured) = 0 THEN DefaultKeywords ELSE configured

\* interval := c.config.Symptom.CheckInterval; if interval == 0 { ... }
IntervalOf(configured) ==
    IF configured = 0 THEN DefaultCheckInterval ELSE configured

\* Lines written to the file at log path w while the session runs: the
\* first path receives "a panic" and "Error", every other path "Error"
\* only.  watchLogFile never opens the file, so no step reads these.
LogLines(w) ==
    IF w = 1
    THEN << <<"a", " ", "p", "a", "n", "i", "c">>, <<"E", "r", "r", "o", "r">> >>
    ELSE << <<"E", "r", "r", "o", "r">> >>

\* the line contains one of the keywords (strings.Contains, case-sensitive)
LineMatches(line) == \E k \in Keywords : Contains(line, k)

\* number of keyword-matching lines written to path w
MatchingLines(w) ==
    Cardinality({ i \in 1..Len(LogLines(w)) : LineMatches(LogLines(w)[i]) })

\* ---------------------------------------------------------------- watchLogFile
\* Variant of the ctx.Done case that leaves the select but not the for loop
\* ("break" instead of "return")
WatcherCtxDone_BreaksSelectOnly(w) ==
    /\ watcher[w].pc = "select"
    /\ ctxDone
    /\ UNCHANGED vars

\* select { case <-ctx.Done(): return }; deferred ticker.Stop and wg.Done
WatcherCtxDone(w) ==
    /\ watcher[w].pc = "select"
    /\ ctxDone
    /\ watcher' = [watcher EXCEPT ![w].pc = "done"]
    /\ wg' = wg - 1
    /\ UNCHANGED << auxVars, patchVars, inputVars, ctxDone, now, orch, result, chanVars, trace,
                    pcap, pybot, mon, nextPath, consumer, report >>

\* number of events the watchers in ws have detected so far
RECURSIVE Detected(_)
Detected(ws) ==
    IF ws = {} THEN 0
    ELSE LET w == CHOOSE x \in ws : TRUE
         IN  watcher[w].detected + Detected(ws \ {w})

\* select { case <-ticker.C: if time.Now().Unix()%10 == 0 { ... } }: the
\* wall-clock second of the tick is an input; a tick that detects nothing
\* returns to the select.  On a detection the ErrorEvent is built and the
\* goroutine reaches the channel send.
WatcherTick(w) ==
    /\ watcher[w].pc = "select"
    /\ Detected(Watchers) < MaxEvents
    /\ watcher' = [watcher EXCEPT ![w].pc = "send",
                                  ![w].detected = @ + 1]
    /\ UNCHANGED << auxVars, patchVars, inputVars, ctxDone, now, orch, result, wg, chanVars, trace,
                    pcap, pybot, mon, nextPath, consumer, report >>

\* Variant of the send that never waits for a free slot
SendOutcome_Unbounded(state, buf) ==
    IF state = "closed" THEN "panic" ELSE "ok"

\* The send statement on a buffered channel: "panic" on a closed channel,
\* "ok" when a slot is free, "block" otherwise
SendOutcome(state, buf) ==
    IF state = "closed" THEN "panic"
    ELSE IF Len(buf) < ChanCap THEN "ok"
    ELSE "block"

\* errorChan <- ErrorEvent{...}
WatcherSend(w) ==
    /\ watcher[w].pc = "send"
    /\ LET out == SendOutcome(chanState, errorChan)
       IN  /\ out # "block"
           /\ IF out = "panic"
              THEN /\ watcher' = [watcher EXCEPT ![w].pc = "panic"]
                   /\ UNCHANGED errorChan
              ELSE /\ errorChan' =
                         Append(errorChan, ErrorEvent(w, watcher[w].detected))
                   /\ watcher' = [watcher EXCEPT ![w].pc = "select",
                                                 ![w].sent = @ + 1]
    /\ UNCHANGED << auxVars, patchVars, inputVars, ctxDone, now, orch, result, wg, chanState,
                    closeCount, trace, pcap, pybot, mon, nextPath, consumer,
                    report >>

\* ----------------------------------------------------------- error monitoring
\* Variant of the receive that takes the newest buffered event
ConsumerReceive_TakesNewest ==
    /\ consumer = "range"
    /\ Len(errorChan) > 0
    /\ report' = [report EXCEPT ![errorChan[Len(errorChan)].source] =
                                     Append(@, errorChan[Len(errorChan)].seq)]
    /\ errorChan' = SubSeq(errorChan, 1, Len(errorChan) - 1)
    /\ UNCHANGED << auxVars, patchVars, inputVars, ctxDone, now, orch, result, wg, chanState,
                    closeCount, taskVars, nextPath, consumer >>

\* for event := range errorChan { c.logger.Error(...) }: one received event
ConsumerReceive ==
    /\ consumer = "range"
    /\ Len(errorChan) > 0
    /\ report' = [report EXCEPT ![Head(errorChan).source] =
                                     Append(@, Head(errorChan).seq)]
    /\ errorChan' = Tail(errorChan)
    /\ UNCHANGED << auxVars, patchVars, inputVars, ctxDone, now, orch, result, wg, chanState,
                    closeCount, taskVars, nextPath, consumer >>

\* Variant of the range loop that ends as soon as the channel is closed,
\* whatever is still buffered
ConsumerExit_DropsBuffered ==
    /\ consumer = "range"
    /\ chanState = "closed"
    /\ consumer' = "done"
    /\ UNCHANGED << auxVars, patchVars, inputVars, ctxDone, now, orch, result, wg, chanVars,
                    taskVars, nextPath, report >>

\* the range loop ends when the channel is closed and drained
ConsumerExit ==
    /\ consumer = "range"
    /\ chanState = "closed"
    /\ Len(errorChan) = 0
    /\ consumer' = "done"
    /\ UNCHANGED << auxVars, patchVars, inputVars, ctxDone, now, orch, result, wg, chanVars,
                    taskVars, nextPath, report >>

\* ----------------------------------------------------------------- environment
\* A caller that passed a cancellable context cancels it.  The CLI passes
\* context.Background(): its runs are the behaviours without this step.
CancelCtx ==
    /\ ~ctxDone
    /\ ctxDone' = TRUE
    /\ UNCHANGED << auxVars, patchVars, inputVars, now, orch, result, wg, chanVars, taskVars,
                    nextPath, consumer, report >>

\* Instants at which something in the run can change: the deadlines of the
\* sleeping goroutines and the configured session timeout
Deadlines ==
    { t.wake : t \in { x \in {pybot, mon} : x.pc = "sleep" } }
        \cup { CollectionTimeout }

\* Time passes up to the next such instant
AdvanceTime ==
    /\ pybot.pc # "none"
    /\ orch \notin {"returned", "panic"}
    /\ \E t \in Deadlines :
          /\ t > now
          /\ \A u \in Deadlines : u > now => t <= u
          /\ now' = t
    /\ UNCHANGED << auxVars, patchVars, inputVars, ctxDone, orch, result, wg, chanVars, taskVars,
                    nextPath, consumer, report >>

\* ------------------------------------------------------- Manager.ApplyPatch
\* one step ApplyPatch has performed, and whether it went through
Step(op, ok) == [op |-> op, ok |-> ok]

\* return fmt.Errorf("<msg>: ...")
ApFail(msg) ==
    /\ ap' = [ap EXCEPT !.pc = "returned"]
    /\ apResult' = msg

\* the apply-patch command calls manager.ApplyPatch(ctx, patchPath, service),
\* or the legacy command calls ApplyPatch(patchPath, serviceName), which
\* starts with CalculateMD5
ApCall ==
    /\ ap.pc \in {"idle", "returned"}
    /\ calls < MaxCalls
    /\ calls' = calls + 1
    /\ \E legacy \in BOOLEAN :
          ap' = [pc |-> IF legacy THEN "md5" ELSE "checkPatch",
                 legacy |-> legacy, missing |-> FALSE, sec |-> ap.sec,
                 patchMD5 |-> NoHash, existingMD5 |-> NoHash, pre |-> fs]
    /\ apResult' = "none"
    /\ steps' = << >>
    /\ UNCHANGED << auxVars, collectorVars, fs, backupEnabled >>

\* Between two calls (the last one is over, the manager is idle again) the
\* developer puts another build at the patch path
DevWritesPatch ==
    /\ ap.pc = "returned"
    /\ calls < MaxCalls
    /\ \E d \in {"v1", "v2"} :
          /\ fs[PatchPath] # File(d)
          /\ fs' = [fs EXCEPT ![PatchPath] = File(d)]
    /\ ap' = [ap EXCEPT !.pc = "idle"]
    /\ apResult' = "none"
    /\ steps' = << >>
    /\ UNCHANGED << auxVars, collectorVars, backupEnabled, calls >>

\* Variant of step 1 that skips the file steps for a missing patch and goes
\* on to the restart
ApCheckPatch_RestartsAnyway ==
    /\ ap.pc = "checkPatch"
    /\ IF ~FileExists(fs, PatchPath)
       THEN ap' = [ap EXCEPT !.pc = "restart"]
       ELSE ap' = [ap EXCEPT !.pc = "md5"]
    /\ UNCHANGED << auxVars, collectorVars, fs, backupEnabled, apResult, steps, calls >>

\* Step 1: if !utils.FileExists(patchPath) { return ... }
ApCheckPatch ==
    /\ ap.pc = "checkPatch"
    /\ IF ~FileExists(fs, PatchPath)
       THEN ApFail("patch file does not exist")
       ELSE /\ ap' = [ap EXCEPT !.pc = "md5"]
            /\ UNCHANGED apResult
    /\ UNCHANGED << auxVars, collectorVars, fs, backupEnabled, steps, calls >>

\* patchMD5, err := utils.CalculateMD5(patchPath)
ApMD5 ==
    /\ ap.pc = "md5"
    /\ \E readable \in BOOLEAN :
          LET r == CalculateMD5(fs, PatchPath, readable)
          IN  /\ steps' = Append(steps, Step("md5", ~r.err))
              /\ IF r.err
                 THEN ApFail("failed to calculate MD5")
                 ELSE /\ ap' = [ap EXCEPT !.pc = "checkTcnVol",
                                             !.patchMD5 = r.md5]
                      /\ UNCHANGED apResult
    /\ UNCHANGED << auxVars, collectorVars, fs, backupEnabled, calls >>

\* Variant of step 2 that copies the patch again whatever the MD5 of the
\* existing copy
ApCheckTcnVol_AlwaysCopies ==
    /\ ap.pc = "checkTcnVol"
    /\ IF ~FileExists(fs, TcnVolPatchPath)
       THEN ap' = [ap EXCEPT !.pc = "ensureDir", !.missing = TRUE]
       ELSE \E readable \in BOOLEAN :
               ap' = [ap EXCEPT !.pc = "updateCopy",
                                !.existingMD5 =
                                    CalculateMD5(fs, TcnVolPatchPath,
                                                 readable).md5]
    /\ UNCHANGED << auxVars, collectorVars, fs, backupEnabled, apResult, steps, calls >>

\* Step 2: patchExists := utils.FileExists(tcnVolPatchPath) and, for an
\* existing copy, the comparison of its MD5 (a failed computation is logged
\* and leaves the empty hash)
ApCheckTcnVol ==
    /\ ap.pc = "checkTcnVol"
    /\ IF ~FileExists(fs, TcnVolPatchPath)
       THEN ap' = [ap EXCEPT !.pc = "ensureDir", !.missing = TRUE]
       ELSE \E readable \in BOOLEAN :
               LET existingMD5 ==
                       CalculateMD5(fs, TcnVolPatchPath, readable).md5
               IN  IF existingMD5 # ap.patchMD5
                   THEN ap' = [ap EXCEPT !.pc = "updateCopy",
                                         !.existingMD5 = existingMD5]
                   ELSE ap' = [ap EXCEPT !.pc = "restart",
                                         !.existingMD5 = existingMD5]
    /\ UNCHANGED << auxVars, collectorVars, fs, backupEnabled, apResult, steps, calls >>

\* utils.EnsureDirectory(serviceTcnVolPath)
ApEnsureDir ==
    /\ ap.pc = "ensureDir"
    /\ \E ok \in BOOLEAN :
          /\ steps' = Append(steps, Step("mkdir", ok))
          /\ IF ok
             THEN ap' = [ap EXCEPT !.pc = "copy"] /\ UNCHANGED apResult
             ELSE ApFail("failed to create tcnVol directory")
    /\ UNCHANGED << auxVars, collectorVars, fs, backupEnabled, calls >>

\* Variant of the copy that carries on to the library when the copy failed
ApCopy_ContinuesOnError ==
    /\ ap.pc \in {"copy", "updateCopy"}
    /\ ~ap.legacy
    /\ \E out \in CopyOutcomes :
          LET r == CopyFile(fs, PatchPath, TcnVolPatchPath, out)
          IN  /\ fs' = r.fs
              /\ steps' = Append(steps, Step("copy", ~r.err))
              /\ ap' = [ap EXCEPT !.pc = "library"]
              /\ UNCHANGED apResult
    /\ UNCHANGED << auxVars, collectorVars, backupEnabled, calls >>

\* utils.CopyFile(patchPath, tcnVolPatchPath), in the branch of the missing
\* copy ("failed to copy patch") or of the differing one ("failed to update
\* patch")
ApCopy ==
    /\ ap.pc \in {"copy", "updateCopy"}
    /\ ~ap.legacy
    /\ \E out \in CopyOutcomes :
          LET r == CopyFile(fs, PatchPath, TcnVolPatchPath, out)
          IN  /\ fs' = r.fs
              /\ steps' = Append(steps, Step("copy", ~r.err))
              /\ IF r.err
                 THEN ApFail(IF ap.pc = "copy" THEN "failed to copy patch"
                             ELSE "failed to update patch")
                 ELSE /\ ap' = [ap EXCEPT !.pc = "library"]
                      /\ UNCHANGED apResult
    /\ UNCHANGED << auxVars, collectorVars, backupEnabled, calls >>

\* legacy ApplyPatch: CopyFile(patchPath, tcnVolPatchPath) in either branch
LegacyApCopy ==
    /\ ap.pc \in {"copy", "updateCopy"}
    /\ ap.legacy
    /\ \E out \in CopyOutcomes :
          LET r == LegacyCopyFile(fs, PatchPath, TcnVolPatchPath, out)
          IN  /\ fs' = r.fs
              /\ steps' = Append(steps, Step("copy", ~r.err))
              /\ IF r.err
                 THEN ApFail(IF ap.pc = "copy" THEN "failed to copy patch"
                             ELSE "failed to update patch")
                 ELSE /\ ap' = [ap EXCEPT !.pc = "library"]
                      /\ UNCHANGED apResult
    /\ UNCHANGED << auxVars, collectorVars, backupEnabled, calls >>

\* Variant that leaves an existing library as it is
ApLibrary_SkipsUpdate ==
    /\ ap.pc = "library"
    /\ ~ap.legacy
    /\ ap' = [ap EXCEPT !.pc = "restart"]
    /\ UNCHANGED << auxVars, collectorVars, fs, steps, apResult,
                    backupEnabled, calls >>

\* if utils.FileExists(libPath) { m.updateLibrary(tcnVolPatchPath, libPath) }
\* The backup, when enabled, is named after the second sec the clock shows,
\* which is no earlier than the last second read.
ApLibrary ==
    /\ ap.pc = "library"
    /\ ~ap.legacy
    /\ IF FileExists(fs, LibPath)
       THEN \E bout \in CopyOutcomes, sout \in SymlinkOutcomes,
               sec \in ap.sec..MaxSeconds :
               LET r == updateLibrary(fs, TcnVolPatchPath, LibPath, sec,
                                      backupEnabled, bout, sout)
                   read == IF backupEnabled THEN sec ELSE ap.sec
               IN  /\ fs' = r.fs
                   /\ steps' = Append(steps, Step("library", ~r.err))
                   /\ IF r.err
                      THEN /\ ap' = [ap EXCEPT !.pc = "returned",
                                               !.sec = read]
                           /\ apResult' = "failed to update library"
                      ELSE /\ ap' = [ap EXCEPT !.pc = "restart",
                                               !.sec = read]
                           /\ UNCHANGED apResult
       ELSE /\ ap' = [ap EXCEPT !.pc = "restart"]
            /\ UNCHANGED << fs, steps, apResult >>
    /\ UNCHANGED << auxVars, collectorVars, backupEnabled, calls >>

\* legacy ApplyPatch: if FileExists(libPath), updateLibrary; in the branch of
\* the missing copy only if CalculateMD5(libPath) succeeds with a hash other
\* than the patch's
LegacyApLibrary ==
    /\ ap.pc = "library"
    /\ ap.legacy
    /\ IF FileExists(fs, LibPath)
       THEN \E readable \in BOOLEAN, bout \in CopyOutcomes,
               sout \in SymlinkOutcomes :
               LET libMD5 == CalculateMD5(fs, LibPath, readable)
                   r == LegacyUpdateLibrary(fs, TcnVolPatchPath, LibPath,
                                            bout, sout)
               IN  IF ap.missing => (~libMD5.err /\ libMD5.md5 # ap.patchMD5)
                   THEN /\ fs' = r.fs
                        /\ steps' = Append(steps, Step("library", ~r.err))
                        /\ IF r.err
                           THEN ApFail("failed to update library")
                           ELSE /\ ap' = [ap EXCEPT !.pc = "restart"]
                                /\ UNCHANGED apResult
                   ELSE /\ ap' = [ap EXCEPT !.pc = "restart"]
                        /\ UNCHANGED << fs, steps, apResult >>
       ELSE /\ ap' = [ap EXCEPT !.pc = "restart"]
            /\ UNCHANGED << fs, steps, apResult >>
    /\ UNCHANGED << auxVars, collectorVars, backupEnabled, calls >>

\* Step 3: m.service.RestartService(ctx, serviceName)
ApRestart ==
    /\ ap.pc = "restart"
    /\ \E ok \in BOOLEAN :
          /\ steps' = Append(steps, Step("restart", ok))
          /\ IF ok
             THEN ap' = [ap EXCEPT !.pc = "monitor"] /\ UNCHANGED apResult
             ELSE ApFail("failed to restart service")
    /\ UNCHANGED << auxVars, collectorVars, fs, backupEnabled, calls >>

\* Step 4: m.service.MonitorHealth(ctx, serviceName, timeout); return nil
ApMonitor ==
    /\ ap.pc = "monitor"
    /\ \E ok \in BOOLEAN :
          /\ steps' = Append(steps, Step("monitor", ok))
          /\ IF ok
             THEN ap' = [ap EXCEPT !.pc = "returned"] /\ apResult' = "nil"
             ELSE ApFail("service health check failed")
    /\ UNCHANGED << auxVars, collectorVars, fs, backupEnabled, calls >>

\* ------------------------------------------------------------ file utilities
\* A call of one of the utilities of pkg/utils on the files of the node. The
\* call is recorded in util: operation, arguments (a, b), the injected outcome
\* of its system calls, the files before the call, and what it returned.
UtilPaths == { PatchPath, TcnVolPatchPath, LibPath }

\* Paths a symbolic link is created at, and the path it is made to point to
LinkPaths == { PatchPath, LibPath }
LinkTargets == { TcnVolPatchPath }

Called(op, a, b, out) ==
    [UtilIdle EXCEPT !.op = op, !.a = a, !.b = b, !.out = out, !.pre = fs,
                     !.prevSame = util.op = op /\ util.a = a /\ util.b = b,
                     !.prevErr = util.err,
                     !.n = util.n + 1]

\* exists := FileExists(path)
UtilFileExists ==
    /\ util.n < MaxUtilCalls
    /\ \E path \in UtilPaths :
           util' = [Called("FileExists", path, << >>, "ok")
                       EXCEPT !.ok = FileExists(fs, path)]
    /\ UNCHANGED << collectorVars, patchVars, conf, cli, extVars >>

\* err := CopyFile(src, dst)
UtilCopyFile ==
    /\ util.n < MaxUtilCalls
    /\ \E src \in UtilPaths, dst \in UtilPaths, out \in CopyOutcomes :
           LET r == CopyFile(fs, src, dst, out)
           IN  /\ fs' = r.fs
               /\ util' = [Called("CopyFile", src, dst, out)
                              EXCEPT !.err = r.err]
    /\ UNCHANGED << collectorVars, backupEnabled, ap, apResult, steps, calls,
                    conf, cli, extVars >>

\* hash, err := CalculateMD5(path)
UtilCalculateMD5 ==
    /\ util.n < MaxUtilCalls
    /\ \E path \in UtilPaths, readable \in BOOLEAN :
           LET r == CalculateMD5(fs, path, readable)
           IN  util' = [Called("CalculateMD5", path, << >>,
                               IF readable THEN "ok" ELSE "copyFails")
                           EXCEPT !.err = r.err, !.md5 = r.md5]
    /\ UNCHANGED << collectorVars, patchVars, conf, cli, extVars >>

\* ok, err := VerifyChecksum(path, hash), hash being what the CalculateMD5
\* call just before returned for the file at util.a
UtilVerifyChecksum ==
    /\ util.n < MaxUtilCalls
    /\ util.op = "CalculateMD5"
    /\ \E path \in UtilPaths, readable \in BOOLEAN :
           LET r == VerifyChecksum(fs, path, util.md5, readable)
           IN  util' = [Called("VerifyChecksum", path, util.a,
                               IF readable THEN "ok" ELSE "copyFails")
                           EXCEPT !.err = r.err, !.ok = r.ok,
                                  !.expected = util.md5]
    /\ UNCHANGED << collectorVars, patchVars, conf, cli, extVars >>

\* err := CreateSymlink(target, linkPath)
UtilCreateSymlink ==
    /\ util.n < MaxUtilCalls
    /\ \E target \in LinkTargets, linkPath \in LinkPaths,
          out \in SymlinkOutcomes :
           LET r == CreateSymlink(fs, target, linkPath, out)
           IN  /\ fs' = r.fs
               /\ util' = [Called("CreateSymlink", target, linkPath, out)
                              EXCEPT !.err = r.err]
    /\ UNCHANGED << collectorVars, backupEnabled, ap, apResult, steps, calls,
                    conf, cli, extVars >>

\* ------------------------------------------------------- watcher start-up
\* The watcher loop of StartCollection and the entry of watchLogFile, over
\* the configured log paths, keywords and check interval. conf.started holds
\* one record per goroutine started by the loop, in the order of the loop.

\* One iteration of "for _, logPath := range logPaths": wg.Add(1) and
\* go func() { ... c.watchLogFile(ctx, logPath, errorChan) }()
ConfStartWatcher ==
    /\ conf.pc = "loop"
    /\ Len(conf.started) < Len(LogPathsOf(conf.logPaths))
    /\ conf' = [conf EXCEPT !.started =
                   Append(@, [pc |-> "spawned",
                              path |-> LogPathsOf(conf.logPaths)[Len(@) + 1],
                              keywords |-> << >>,
                              interval |-> 0])]
    /\ UNCHANGED << collectorVars, patchVars, util, cli, extVars >>

\* The range loop is over: StartCollection goes on to the monitor
ConfLoopDone ==
    /\ conf.pc = "loop"
    /\ Len(conf.started) = Len(LogPathsOf(conf.logPaths))
    /\ conf' = [conf EXCEPT !.pc = "started"]
    /\ UNCHANGED << collectorVars, patchVars, util, cli, extVars >>

\* watchLogFile up to time.NewTicker(interval): the goroutine settles the
\* keywords and the interval it works with
ConfWatchLogFile ==
    /\ \E i \in 1..Len(conf.started) :
          /\ conf.started[i].pc = "spawned"
          /\ conf' = [conf EXCEPT
                        !.started[i].pc = "watching",
                        !.started[i].keywords = KeywordsOf(conf.keywords),
                        !.started[i].interval = IntervalOf(conf.interval)]
    /\ UNCHANGED << collectorVars, patchVars, util, cli, extVars >>

\* ------------------------------------------------------------ symptom command
\* The symptom command up to the preflight validation, in its two forms: the
\* symptom subcommand (pods flag -p, strings.Fields) and the legacy
\* StartSymptomCollection (flag -c, strings.Split on " "). Both reject the
\* empty string only, and both validate the fragments in the same way.
CliParse ==
    /\ cli.pc = "start"
    /\ IF Len(cli.arg) = 0
       THEN /\ cli' = [cli EXCEPT !.pc = "rejected",
                                  !.err = "pod names are required"]
            /\ UNCHANGED pods
       ELSE IF cli.legacy
       THEN /\ pods' = Split(cli.arg)
            /\ cli' = IF cli.setup = "ok"
                      THEN [cli EXCEPT !.pc = "collecting"]
                      ELSE [cli EXCEPT !.pc = "died"]
       ELSE IF cli.setup = "configFails"
       THEN /\ cli' = [cli EXCEPT !.pc = "failed",
                                  !.err = "failed to load config"]
            /\ UNCHANGED pods
       ELSE IF cli.setup = "loggerFails"
       THEN /\ cli' = [cli EXCEPT !.pc = "failed",
                                  !.err = "failed to initialize logger"]
            /\ UNCHANGED pods
       ELSE /\ pods' = Fields(cli.arg)
            /\ cli' = IF cli.setup = "clientFails"
                      THEN [cli EXCEPT
                              !.pc = "failed",
                              !.err = "failed to create Kubernetes client"]
                      ELSE [cli EXCEPT !.pc = "collecting"]
    /\ UNCHANGED << util, conf, extVars, patchVars, cluster, ctxDone, now, orch, result,
                    wg, chanVars, taskVars, nextPath, consumer, report >>

\* validateNamespace, called once the argument was accepted and the set-up
\* went through
CliValidateNamespace ==
    /\ cli.pc = "collecting"
    /\ OrchValidateNamespace

\* validateDeployments on the fragments of the argument
CliValidateDeployments ==
    /\ cli.pc = "collecting"
    /\ IF cli.legacy THEN LegacyValidateDeploymentsStep
       ELSE OrchValidateDeployments

\* ----------------------------------------------------------- namespace lookup
\* StartCollection's namespace check with the cluster API in state ns.api:
\* the call chain validateNamespace -> NamespaceExists -> GetNamespace. ns
\* keeps the error GetNamespace produced (got) and what NamespaceExists
\* returned (exists, err).
NsValidateNamespace ==
    /\ ns.pc = "start"
    /\ orch = "validateNamespace"
    /\ ns' = [ns EXCEPT !.pc = "done",
                        !.got = GetNamespace(cluster, ns.api).err,
                        !.exists = NamespaceExistsCall(cluster, ns.api).exists,
                        !.err = NamespaceExistsCall(cluster, ns.api).err]
    /\ LET err == validateNamespaceCall(cluster, ns.api)
       IN  IF err # "ok"
           THEN /\ orch' = "failed"
                /\ result' = << "namespace validation failed", err >>
           ELSE /\ orch' = "validateDeployments"
                /\ UNCHANGED result
    /\ UNCHANGED << util, conf, cli, leg, cmd, patchVars, inputVars, ctxDone,
                    now, wg, chanVars, taskVars, nextPath, consumer, report >>

\* validateDeployments after a namespace check that passed
NsValidateDeployments ==
    /\ ns.pc = "done"
    /\ OrchValidateDeployments

\* ------------------------------------------------- legacy StartSymptomCollection
\* leg is the state of the call: the -c argument and the outcome of the
\* client set-up it meets, the position of the main goroutine (pc), the wait
\* group, the channel, each goroutine it started, and the message of the
\* log.Fatal / log.Fatalf that ended the process, if any.
LegWatchers == 1..NumLegWatchers

LegOthers == << util, conf, cli, ns, cmd, patchVars, collectorVars >>

\* StartSymptomCollection up to the validation checks (lines 106-129):
\* flag.Parse; an empty -c ends the process in log.Fatal; the argument is
\* split on " "; ctrl.GetConfigOrDie exits the process and
\* kubernetes.NewForConfigOrDie panics when the set-up fails, in both cases
\* before any validation.
LegacyCall ==
    /\ leg.pc = "start"
    /\ IF Len(leg.arg) = 0
       THEN /\ leg' = [leg EXCEPT
                         !.pc = "rejected",
                         !.fatal = << "Error: pod names (-c) is required" >>]
            /\ UNCHANGED pods
       ELSE /\ pods' = Split(leg.arg)
            /\ leg' = IF leg.setup = "ok"
                      THEN [leg EXCEPT !.pc = "validateNamespace"]
                      ELSE [leg EXCEPT !.pc = "died"]
    /\ UNCHANGED << util, conf, cli, ns, cmd, patchVars, cluster, ctxDone, now,
                    orch, result, wg, chanVars, taskVars, nextPath, consumer,
                    report >>

\* if err := validateNamespace(...); err != nil { log.Fatalf(...) }
\* log.Fatalf writes the message and exits the process: nothing after it runs.
LegValidateNamespace ==
    /\ leg.pc = "validateNamespace"
    /\ LET err == validateNamespace(cluster)
       IN  IF err # "ok"
           THEN leg' = [leg EXCEPT !.pc = "fatal",
                           !.fatal = << "Namespace validation failed", err >>]
           ELSE leg' = [leg EXCEPT !.pc = "validateDeployments"]
    /\ UNCHANGED LegOthers

\* if err := validateDeployments(...); err != nil { log.Fatalf(...) }
\* A nil Spec.Replicas of a matching deployment ends the process in a panic;
\* after a nil error the function goes on to "var wg sync.WaitGroup".
LegValidateDeployments ==
    /\ leg.pc = "validateDeployments"
    /\ LET err == LegacyValidateDeployments(cluster, pods)
       IN  IF err = "panic"
           THEN leg' = [leg EXCEPT !.pc = "crashed"]
           ELSE IF err # "ok"
           THEN leg' = [leg EXCEPT !.pc = "fatal",
                           !.fatal = << "Deployment validation failed", err >>]
           ELSE leg' = [leg EXCEPT !.pc = "startTrace"]
    /\ UNCHANGED LegOthers

\* Routine 1: wg.Add(1); go func() { defer wg.Done(); enableTraces(pods) }()
LegStartTrace ==
    /\ leg.pc = "startTrace"
    /\ leg' = [leg EXCEPT !.pc = "startPcap", !.wg = @ + 1,
                          !.trace = [pc |-> "run", idx |-> 0]]
    /\ UNCHANGED LegOthers

\* Routine 2: wg.Add(1); go func() { defer wg.Done(); enablePcap(pods) }()
LegStartPcap ==
    /\ leg.pc = "startPcap"
    /\ leg' = [leg EXCEPT !.pc = "startPybot", !.wg = @ + 1,
                          !.pcap = [pc |-> "run", idx |-> 0]]
    /\ UNCHANGED LegOthers

\* Routine 3: wg.Add(1); go func() { defer wg.Done(); executePybot() }()
LegStartPybot ==
    /\ leg.pc = "startPybot"
    /\ leg' = [leg EXCEPT !.pc = "startWatcher", !.wg = @ + 1,
                          !.pybot = "sleep"]
    /\ UNCHANGED LegOthers

\* Variant of a watcher routine that starts the goroutine without wg.Add(1)
LegStartWatcher_NoAdd ==
    /\ leg.pc = "startWatcher"
    /\ leg' = [leg EXCEPT
                 !.pc = IF leg.next = NumLegWatchers THEN "startMonitor"
                        ELSE "startWatcher",
                 !.next = @ + 1,
                 !.w[leg.next].pc = "sleep"]
    /\ UNCHANGED LegOthers

\* Routines 4-8: wg.Add(1); go func() { defer wg.Done();
\* watchLogFile(path, errorChan) }(), one block per path
LegStartWatcher ==
    /\ leg.pc = "startWatcher"
    /\ leg' = [leg EXCEPT
                 !.pc = IF leg.next = NumLegWatchers THEN "startMonitor"
                        ELSE "startWatcher",
                 !.next = @ + 1,
                 !.wg = @ + 1,
                 !.w[leg.next].pc = "sleep"]
    /\ UNCHANGED LegOthers

\* Routine 9: wg.Add(1); go func() { defer wg.Done(); Sleep(10s); cleanup }()
LegStartMonitor ==
    /\ leg.pc = "startMonitor"
    /\ leg' = [leg EXCEPT !.pc = "startConsumer", !.wg = @ + 1,
                          !.mon = "sleep"]
    /\ UNCHANGED LegOthers

\* Error monitoring: go func() { for errMsg := range errorChan { ... } }()
LegStartConsumer ==
    /\ leg.pc = "startConsumer"
    /\ leg' = [leg EXCEPT !.pc = "wait", !.consumer = "range"]
    /\ UNCHANGED LegOthers

\* wg.Wait() returns when the counter is zero
LegWaitReturns ==
    /\ leg.pc = "wait"
    /\ leg.wg = 0
    /\ leg' = [leg EXCEPT !.pc = "close"]
    /\ UNCHANGED LegOthers

\* close(errorChan); log.Println("Symptom collection completed"); return
LegClose ==
    /\ leg.pc = "close"
    /\ leg' = [leg EXCEPT !.pc = "returned", !.closes = @ + 1]
    /\ UNCHANGED LegOthers

\* enableTraces: one pod of the loop (log, Sleep(500ms)); after the last pod
\* the goroutine returns and its deferred wg.Done runs
LegTraceStep ==
    /\ leg.trace.pc = "run"
    /\ IF leg.trace.idx < Len(pods)
       THEN leg' = [leg EXCEPT !.trace.idx = @ + 1]
       ELSE leg' = [leg EXCEPT !.trace.pc = "done", !.wg = @ - 1]
    /\ UNCHANGED LegOthers

\* enablePcap, likewise
LegPcapStep ==
    /\ leg.pcap.pc = "run"
    /\ IF leg.pcap.idx < Len(pods)
       THEN leg' = [leg EXCEPT !.pcap.idx = @ + 1]
       ELSE leg' = [leg EXCEPT !.pcap.pc = "done", !.wg = @ - 1]
    /\ UNCHANGED LegOthers

\* executePybot: Sleep(2s), log, return; wg.Done
LegPybotDone ==
    /\ leg.pybot = "sleep"
    /\ leg' = [leg EXCEPT !.pybot = "done", !.wg = @ - 1]
    /\ UNCHANGED LegOthers

\* Routine 9 after its sleep: cleanup(config), return; wg.Done
LegMonitorDone ==
    /\ leg.mon = "sleep"
    /\ leg' = [leg EXCEPT !.mon = "done", !.wg = @ - 1]
    /\ UNCHANGED LegOthers

\* watchLogFile, one poll: time.Sleep(1s); in the poll i == LegSendAt the
\* goroutine goes on to the send, in any other one to i++; the loop ends at
\* i == LegPolls, the goroutine returns and its deferred wg.Done runs
LegWatcherPoll(x) ==
    /\ leg.w[x].pc = "sleep"
    /\ IF leg.w[x].i >= LegPolls
       THEN leg' = [leg EXCEPT !.w[x].pc = "done", !.wg = @ - 1]
       ELSE IF leg.w[x].i = LegSendAt
       THEN leg' = [leg EXCEPT !.w[x].pc = "send"]
       ELSE leg' = [leg EXCEPT !.w[x].i = @ + 1]
    /\ UNCHANGED LegOthers

\* errorChan <- fmt.Sprintf("Error detected in %s at line %d", ...): blocks
\* while the buffer is full; then i++
LegWatcherSend(x) ==
    /\ leg.w[x].pc = "send"
    /\ Len(leg.chan) < LegChanCap
    /\ leg.closes = 0
    /\ leg' = [leg EXCEPT !.chan = Append(@, x),
                          !.w[x].pc = "sleep",
                          !.w[x].sent = @ + 1,
                          !.w[x].i = @ + 1]
    /\ UNCHANGED LegOthers

\* for errMsg := range errorChan { log.Printf(...) }: one message
LegConsumerReceive ==
    /\ leg.consumer = "range"
    /\ Len(leg.chan) > 0
    /\ leg' = [leg EXCEPT !.chan = Tail(@),
                          !.logged = Append(@, Head(leg.chan))]
    /\ UNCHANGED LegOthers

\* the range loop ends when the channel is closed and drained
LegConsumerExit ==
    /\ leg.consumer = "range"
    /\ leg.closes > 0
    /\ Len(leg.chan) = 0
    /\ leg' = [leg EXCEPT !.consumer = "done"]
    /\ UNCHANGED LegOthers

\* -------------------------------------------------- ExecuteCommandWithTimeout
\* One call. cmd holds the caller's position, the worker goroutine's, the
\* state of the command's process (cmd.Process is nil while proc = "none"),
\* the timer of time.After, the channel done, the variables output and err
\* the worker assigns, and what the call returned (ret). The command is
\* described by startOk (it can be started), status (its exit status, "nil"
\* for success), text (what it writes) and spawns (it starts a child process
\* that inherits its output pipe; child is that process); whether and when
\* the command and its child end by themselves is up to them.
CmdOthers == << util, conf, cli, ns, leg, patchVars, collectorVars >>

\* exec.Command; done := make(chan error, 1); go func() { ... }(); the select
\* is entered and time.After(timeout) starts the timer
CmdCall ==
    /\ cmd.caller = "idle"
    /\ cmd' = [cmd EXCEPT !.caller = "select", !.worker = "starting",
                          !.timer = "armed"]
    /\ UNCHANGED CmdOthers

\* cmd.CombinedOutput() in the worker, up to the start of the process: Start
\* sets cmd.Process, or fails and CombinedOutput returns the error
WorkerStart ==
    /\ cmd.worker = "starting"
    /\ IF cmd.startOk
       THEN cmd' = [cmd EXCEPT !.worker = "waiting", !.proc = "running",
                              !.child = IF cmd.spawns THEN "running"
                                        ELSE "none"]
       ELSE cmd' = [cmd EXCEPT !.worker = "send", !.output = "",
                              !.err = "start failed"]
    /\ UNCHANGED CmdOthers

\* The command ends by itself
ProcExit ==
    /\ cmd.proc = "running"
    /\ cmd' = [cmd EXCEPT !.proc = "exited"]
    /\ UNCHANGED CmdOthers

\* A child of the command ends and with it the last holder of the output
\* pipe besides the command itself; Kill does not reach it
ChildExit ==
    /\ cmd.child = "running"
    /\ cmd' = [cmd EXCEPT !.child = "exited"]
    /\ UNCHANGED CmdOthers

\* CombinedOutput returns once the process has ended or was killed and the
\* output pipe is at its end, which it is when no process holds it any more:
\* output, err = ...  A killed command leaves what it had written by then.
WorkerWaitReturns ==
    /\ cmd.worker = "waiting"
    /\ cmd.proc \in {"exited", "killed"}
    /\ cmd.child # "running"
    /\ \E written \in {"", cmd.text} :
          cmd' = [cmd EXCEPT
                    !.worker = "send",
                    !.output = IF cmd.proc = "exited" THEN cmd.text
                               ELSE written,
                    !.err = IF cmd.proc = "exited" THEN cmd.status
                            ELSE "signal: killed"]
    /\ UNCHANGED CmdOthers

\* done <- err, and the goroutine ends; the send waits while the buffer is
\* full
WorkerSend ==
    /\ cmd.worker = "send"
    /\ Len(cmd.done) < DoneCap
    /\ cmd' = [cmd EXCEPT !.worker = "done", !.done = Append(@, cmd.err)]
    /\ UNCHANGED CmdOthers

\* The timer of time.After(timeout) fires
TimerFires ==
    /\ cmd.timer = "armed"
    /\ cmd' = [cmd EXCEPT !.timer = "fired"]
    /\ UNCHANGED CmdOthers

\* case <-time.After(timeout): the process is killed if cmd.Process is set
\* (Kill does nothing to a process that has ended); return "", timeout error
CallerTimeout ==
    /\ cmd.caller = "select"
    /\ cmd.timer = "fired"
    /\ cmd' = [cmd EXCEPT
                 !.caller = "returned",
                 !.proc = IF cmd.proc = "running" THEN "killed" ELSE @,
                 !.ret = [out |-> "", err |-> "command timeout"]]
    /\ UNCHANGED CmdOthers

\* case err := <-done: return string(output) and nil, or the error wrapped
\* in "command ... failed"
CallerDone ==
    /\ cmd.caller = "select"
    /\ Len(cmd.done) > 0
    /\ cmd' = [cmd EXCEPT
                 !.caller = "returned",
                 !.done = Tail(@),
                 !.ret = [out |-> cmd.output,
                          err |-> IF Head(cmd.done) = "nil" THEN "nil"
                                  ELSE "command failed"]]
    /\ UNCHANGED CmdOthers

\* ------------------------------------------------------------- specification
Orchestrator ==
    \/ OrchValidateNamespace
    \/ OrchValidateDeployments
    \/ OrchMakeChan
    \/ OrchStartTraces
    \/ OrchStartPcap
    \/ OrchStartPybot
    \/ OrchStartWatcher
    \/ OrchStartConsumer
    \/ OrchStartMonitor
    \/ OrchWait
    \/ OrchClose
    \/ OrchReturn

Next ==
    \/ Orchestrator
    \/ TraceStep
    \/ PcapStep
    \/ PybotDone
    \/ MonitorStartCleanup
    \/ MonitorCleanupDone
    \/ \E w \in Watchers : WatcherCtxDone(w)
    \/ \E w \in Watchers : WatcherTick(w)
    \/ \E w \in Watchers : WatcherSend(w)
    \/ ConsumerReceive
    \/ ConsumerExit
    \/ CancelCtx
    \/ AdvanceTime

Spec == Init /\ [][Next]_vars

\* Scheduling of the Go runtime: every runnable goroutine is eventually run
\* and time passes.  A select with several ready cases picks one at random, so
\* the ctx.Done case of a watcher cannot lose forever (strong fairness), and
\* a sender blocked on the channel is served once a slot is free.  Nothing
\* obliges the caller to cancel, nor a tick to detect an error.
FairSpec ==
    /\ Spec
    /\ WF_vars(Orchestrator)
    /\ WF_vars(TraceStep)
    /\ WF_vars(PcapStep)
    /\ WF_vars(PybotDone)
    /\ WF_vars(MonitorStartCleanup)
    /\ WF_vars(MonitorCleanupDone)
    /\ \A w \in Watchers : SF_vars(WatcherCtxDone(w))
    /\ \A w \in Watchers : SF_vars(WatcherSend(w))
    /\ WF_vars(ConsumerReceive)
    /\ WF_vars(ConsumerExit)
    /\ WF_vars(AdvanceTime)

\* Preflight validation alone: StartCollection from entry up to the end of
\* the two checks, over the wider range of cluster states and pod lists.
ValidateInit ==
    /\ cluster \in ValClusters
    /\ pods \in ValPodArgs
    /\ Entry
    /\ PatchIdle
    /\ AuxIdle

ValidateNext ==
    \/ OrchValidateNamespace
    \/ OrchValidateDeployments

ValidateSpec == ValidateInit /\ [][ValidateNext]_vars

\* The patch manager alone: ApplyPatch calls on a node whose patch file, tcnVol
\* copy and library are in any of the states below, with backups on or off.
PatchNodes ==
    { [path \in Paths |->
          IF path = PatchPath THEN p
          ELSE IF path = TcnVolPatchPath THEN t
          ELSE IF path = LibPath THEN l
          ELSE Absent] :
        p \in {Absent, Denied, File("v1"), File("v2")},
        t \in {Absent, File("v1"), File("v2")},
        l \in {Absent, File("v0"), File("v1"), Link(TcnVolPatchPath)} }

PatchInit ==
    /\ cluster = Cluster(TRUE, << >>)
    /\ pods = << >>
    /\ Entry
    /\ fs \in PatchNodes
    /\ backupEnabled \in BOOLEAN
    /\ ap = ApIdle(fs)
    /\ apResult = "none"
    /\ steps = << >>
    /\ calls = 0
    /\ AuxIdle

PatchNext ==
    \/ ApCall
    \/ DevWritesPatch
    \/ ApCheckPatch
    \/ ApMD5
    \/ ApCheckTcnVol
    \/ ApEnsureDir
    \/ ApCopy
    \/ LegacyApCopy
    \/ ApLibrary
    \/ LegacyApLibrary
    \/ ApRestart
    \/ ApMonitor

PatchSpec == PatchInit /\ [][PatchNext]_vars

\* The file utilities alone: up to MaxUtilCalls calls, in any order and with
\* any arguments, on a node whose files are in any of the states of PatchNodes
\* (regular files, a link to the tcnVol copy that exists or not, entries that
\* cannot be read).
UtilInit ==
    /\ cluster = Cluster(TRUE, << >>)
    /\ pods = << >>
    /\ Entry
    /\ fs \in PatchNodes
    /\ backupEnabled = TRUE
    /\ ap = ApIdle(fs)
    /\ apResult = "none"
    /\ steps = << >>
    /\ calls = 0
    /\ util = UtilIdle
    /\ conf = ConfIdle
    /\ cli = CliIdle
    /\ ExtIdle

UtilNext ==
    \/ UtilFileExists
    \/ UtilCopyFile
    \/ UtilCalculateMD5
    \/ UtilVerifyChecksum
    \/ UtilCreateSymlink

UtilSpec == UtilInit /\ [][UtilNext]_vars

\* Watcher start-up alone, for configurations that set or leave empty each
\* of log paths, keywords and check interval (milliseconds).
ConfLogPaths ==
    { << >>, << "/var/log/app.log" >>, << "/var/log/app.log", "/dumplog" >> }
ConfKeywords == { << >>, << <<"t", "i", "m", "e", "o", "u", "t">> >> }
ConfIntervals == { 0, 500, 1000, 5000 }

ConfInit ==
    /\ cluster = Cluster(TRUE, << >>)
    /\ pods = << >>
    /\ Entry
    /\ PatchIdle
    /\ util = UtilIdle
    /\ cli = CliIdle
    /\ ExtIdle
    /\ \E lp \in ConfLogPaths, kw \in ConfKeywords, iv \in ConfIntervals :
          conf = [pc |-> "loop", logPaths |-> lp, keywords |-> kw,
                  interval |-> iv, started |-> << >>]

ConfNext ==
    \/ ConfStartWatcher
    \/ ConfLoopDone
    \/ ConfWatchLogFile

ConfSpec == ConfInit /\ [][ConfNext]_vars

\* The symptom command alone, from its pods argument to the end of the
\* preflight validation, in both forms and against every cluster state of
\* SmallClusters.
SP == << " " >>

TAB == << "\t" >>

CliArgs ==
    { << >>, SP, SP \o SP, UECM, UECM \o SP \o NIM, UECM \o SP \o SP \o NIM,
      SP \o UECM, UECM \o SP, TAB, UECM \o TAB \o NIM,
      UECM \o << "\n" >> \o NIM, UECM \o << "NBSP" >>,
      UECM \o << "U+2003" >> \o NIM, << "U+3000" >> }

\* How the set-up before StartCollection goes: config.Load, logger.Init and
\* kubernetes.NewClient of the symptom subcommand; GetConfigOrDie and
\* NewForConfigOrDie of the legacy command, which has no logger to set up
SetupOutcomes == {"ok", "configFails", "loggerFails", "clientFails"}

CliInit ==
    /\ cluster \in SmallClusters
    /\ pods = << >>
    /\ Entry
    /\ PatchIdle
    /\ util = UtilIdle
    /\ conf = ConfIdle
    /\ ExtIdle
    /\ \E a \in CliArgs, l \in BOOLEAN, st \in SetupOutcomes :
          /\ l => st # "loggerFails"
          /\ cli = [pc |-> "start", legacy |-> l, arg |-> a, setup |-> st,
                    err |-> "nil"]

CliNext ==
    \/ CliParse
    \/ CliValidateNamespace
    \/ CliValidateDeployments

CliSpec == CliInit /\ [][CliNext]_vars

\* Preflight validation with a cluster API that answers, is unreachable or
\* refuses, for every cluster state of SmallClusters.
NsInit ==
    /\ cluster \in SmallClusters
    /\ pods \in ValPodArgs
    /\ Entry
    /\ PatchIdle
    /\ util = UtilIdle
    /\ conf = ConfIdle
    /\ cli = CliIdle
    /\ leg = LegIdle
    /\ cmd = CmdIdle
    /\ \E api \in ApiStates : ns = [NsIdle EXCEPT !.pc = "start", !.api = api]

NsNext ==
    \/ NsValidateNamespace
    \/ NsValidateDeployments

NsSpec == NsInit /\ [][NsNext]_vars

\* The legacy command from the point where validation has passed.
LegInit ==
    /\ cluster = Cluster(TRUE, << Dep(UECM1, 1, 1), Dep(NIM1, 2, 2) >>)
    /\ pods \in { << UECM >>, << UECM, NIM >> }
    /\ validateNamespace(cluster) = "ok"
    /\ LegacyValidateDeployments(cluster, pods) = "ok"
    /\ Entry
    /\ PatchIdle
    /\ util = UtilIdle
    /\ conf = ConfIdle
    /\ cli = CliIdle
    /\ ns = NsIdle
    /\ cmd = CmdIdle
    /\ leg = [LegIdle EXCEPT !.pc = "startTrace"]

LegMain ==
    \/ LegStartTrace
    \/ LegStartPcap
    \/ LegStartPybot
    \/ LegStartWatcher
    \/ LegStartMonitor
    \/ LegStartConsumer
    \/ LegWaitReturns
    \/ LegClose

LegNext ==
    \/ LegMain
    \/ LegTraceStep
    \/ LegPcapStep
    \/ LegPybotDone
    \/ LegMonitorDone
    \/ \E x \in LegWatchers : LegWatcherPoll(x)
    \/ \E x \in LegWatchers : LegWatcherSend(x)
    \/ LegConsumerReceive
    \/ LegConsumerExit

\* One call of ExecuteCommandWithTimeout, for commands that start or not,
\* succeed or fail, and write something or nothing.
CmdInit ==
    /\ cluster = Cluster(TRUE, << >>)
    /\ pods = << >>
    /\ Entry
    /\ PatchIdle
    /\ util = UtilIdle
    /\ conf = ConfIdle
    /\ cli = CliIdle
    /\ ns = NsIdle
    /\ leg = LegIdle
    /\ \E so \in BOOLEAN, st \in {"nil", "exit status 1"},
          tx \in {"", "out"}, sp \in BOOLEAN :
          cmd = [CmdIdle EXCEPT !.startOk = so, !.status = st, !.text = tx,
                                !.spawns = sp]

CmdNext ==
    \/ CmdCall
    \/ WorkerStart
    \/ ProcExit
    \/ ChildExit
    \/ WorkerWaitReturns
    \/ WorkerSend
    \/ TimerFires
    \/ CallerTimeout
    \/ CallerDone

CmdSpec == CmdInit /\ [][CmdNext]_vars

\* The caller and the worker are scheduled and the timer fires; nothing makes
\* the command end by itself.
CmdFairSpec ==
    /\ CmdSpec
    /\ WF_vars(CmdCall)
    /\ WF_vars(WorkerStart)
    /\ WF_vars(WorkerWaitReturns)
    /\ WF_vars(WorkerSend)
    /\ WF_vars(TimerFires)
    /\ WF_vars(CallerTimeout)
    /\ WF_vars(CallerDone)

LegSpec == LegInit /\ [][LegNext]_vars

\* The -c arguments and the set-up outcomes the legacy command is run with.
LegArgs == { << >>, UECM, UECM \o SP \o NIM }

LegSetupOutcomes == {"ok", "configFails", "clientFails"}

\* A process that runs the legacy StartSymptomCollection: the command is at
\* its entry, and Collector.StartCollection is not called in this process.
LegacyInit ==
    /\ cluster \in Clusters
    /\ pods = << >>
    /\ ctxDone = FALSE
    /\ now = 0
    /\ orch = "notCalled"
    /\ result = "none"
    /\ wg = 0
    /\ chanState = "none"
    /\ closeCount = 0
    /\ errorChan = << >>
    /\ trace = NotStarted
    /\ pcap = NotStarted
    /\ pybot = NotStarted
    /\ mon = NotStarted
    /\ watcher = [w \in Watchers |->
                    [pc |-> "none", sent |-> 0, detected |-> 0]]
    /\ nextPath = 1
    /\ consumer = "none"
    /\ report = [w \in Watchers |-> << >>]
    /\ PatchIdle
    /\ util = UtilIdle
    /\ conf = ConfIdle
    /\ cli = CliIdle
    /\ ns = NsIdle
    /\ cmd = CmdIdle
    /\ \E a \in LegArgs, st \in LegSetupOutcomes :
          leg = [LegIdle EXCEPT !.pc = "start", !.arg = a, !.setup = st]

\* The process runs one of the two commands: a StartCollection session
\* (Init, the legacy command not run), or the legacy command (LegacyInit).
StartInit == Init \/ LegacyInit

StartNext ==
    \/ Next
    \/ LegacyCall
    \/ LegValidateNamespace
    \/ LegValidateDeployments
    \/ LegNext

StartSpec == StartInit /\ [][StartNext]_vars

\* Every goroutine that can run does run in the end, and every sleep ends.
LegFairSpec ==
    /\ LegSpec
    /\ WF_vars(LegMain)
    /\ WF_vars(LegTraceStep)
    /\ WF_vars(LegPcapStep)
    /\ WF_vars(LegPybotDone)
    /\ WF_vars(LegMonitorDone)
    /\ \A x \in LegWatchers : WF_vars(LegWatcherPoll(x))
    /\ \A x \in LegWatchers : WF_vars(LegWatcherSend(x))
    /\ WF_vars(LegConsumerReceive)
    /\ WF_vars(LegConsumerExit)

\* ------------------------------------------------------------------ notions
\* Preflight validation of the run's inputs fails
ValidationFails ==
    \/ validateNamespace(cluster) # "ok"
    \/ validateDeployments(cluster, pods) # "ok"

\* One of the two validation checks of the legacy StartSymptomCollection
\* returns an error.
LegValidationFails ==
    \/ validateNamespace(cluster) # "ok"
    \/ LegacyValidateDeployments(cluster, pods) # "ok"

\* No go statement of the legacy StartSymptomCollection was executed.
LegNothingStarted ==
    /\ leg.trace.pc = "none"
    /\ leg.pcap.pc = "none"
    /\ leg.pybot = "none"
    /\ leg.mon = "none"
    /\ leg.consumer = "none"
    /\ \A x \in LegWatchers : leg.w[x].pc = "none"

\* StartCollection is past both validation checks
Validated ==
    orch \notin {"validateNamespace", "validateDeployments", "failed", "crashed"}

\* StartCollection has returned nil: the session is Closed
Closed == orch = "returned"

WatchersFinished == \A w \in Watchers : watcher[w].pc = "done"

\* trace, pcap, exerciser and every log watcher have terminated
SourcesFinished ==
    /\ trace.pc = "done"
    /\ pcap.pc = "done"
    /\ pybot.pc = "done"
    /\ WatchersFinished

\* ... and so has the completion / cleanup monitor
AllTasksFinished == SourcesFinished /\ mon.pc = "done"

NothingStarted ==
    /\ trace.pc = "none"
    /\ pcap.pc = "none"
    /\ pybot.pc = "none"
    /\ mon.pc = "none"
    /\ consumer = "none"
    /\ \A w \in Watchers : watcher[w].pc = "none"

\* the event (w, n) sits in the channel buffer / in the consumer's report
InChannel(w, n) ==
    \E i \in 1..Len(errorChan) : errorChan[i] = ErrorEvent(w, n)
InReport(w, n) ==
    \E i \in 1..Len(report[w]) : report[w][i] = n

\* watcher w is stopped at the send statement with no free slot
BlockedOnFull(w) ==
    /\ watcher[w].pc = "send"
    /\ SendOutcome(chanState, errorChan) = "block"

\* pc values of the tasks StartCollection registers with the wait group
TaskPcs ==
    << trace.pc, pcap.pc, pybot.pc, mon.pc >>
        \o [w \in Watchers |-> watcher[w].pc]

\* tasks whose goroutine has been started / has executed its deferred wg.Done
NumStarted == Cardinality({ i \in DOMAIN TaskPcs : TaskPcs[i] # "none" })
NumDone == Cardinality({ i \in DOMAIN TaskPcs : TaskPcs[i] = "done" })

\* StartCollection has reached wg.Wait / has got through it
AtOrPastWait == orch \in {"wait", "close", "return", "returned", "panic"}
PastWait == orch \in {"close", "return", "returned", "panic"}

\* indices of the deployments whose name contains the fragment
Matches(deps, pod) == { i \in 1..Len(deps) : Contains(deps[i].name, pod) }

\* the deployment the inner loop stops at: the first match in list order
FirstMatch(deps, pod) ==
    CHOOSE i \in Matches(deps, pod) : \A j \in Matches(deps, pod) : i <= j

\* what the checks find for one fragment
PodOutcome(cl, pod) ==
    IF Matches(cl.deps, pod) = {} THEN "deployment not found"
    ELSE LET g == cl.live[FirstMatch(cl.deps, pod)]
         IN  IF g.err THEN "failed to check deployment readiness"
             ELSE IF g.nil THEN "panic"
             ELSE IF g.ready < g.desired THEN "deployment is not ready"
             ELSE "ok"

\* position in the pod list of the first fragment the checks reject (0: none)
FirstRejected(cl, podList) ==
    IF \A k \in 1..Len(podList) : PodOutcome(cl, podList[k]) = "ok" THEN 0
    ELSE CHOOSE k \in 1..Len(podList) :
            /\ PodOutcome(cl, podList[k]) # "ok"
            /\ \A j \in 1..(k - 1) : PodOutcome(cl, podList[j]) = "ok"

\* the readiness check finds deployment i with at least as many ready as
\* desired replicas
FoundReady(cl, i) ==
    /\ ~cl.live[i].err
    /\ ~cl.live[i].nil
    /\ cl.live[i].ready >= cl.live[i].desired

\* the steps of the current ApplyPatch call, as a set
StepsDone == { steps[i] : i \in 1..Len(steps) }

\* content a reader of the path gets ("" if there is nothing to read)
Content(f, path) == f[Target(f, path)].data

\* some backup of the library holds the content d
BackedUp(f, d) ==
    \/ \E sec \in 1..MaxSeconds : f[BackupPath(sec)] = File(d)
    \/ f[LegacyBackupPath] = File(d)

\* ApplyPatch is past the comparison of the MD5s
PastCheckTcnVol ==
    ap.pc \in {"ensureDir", "copy", "updateCopy", "library", "restart",
               "monitor"}
        \/ (ap.pc = "returned" /\ Step("md5", TRUE) \in StepsDone)

\* the copy in tcnVol had the patch's content when the call was made
SameCopyAtCall ==
    /\ ap.pc # "idle"
    /\ Openable(ap.pre, PatchPath)
    /\ Openable(ap.pre, TcnVolPatchPath)
    /\ Content(ap.pre, TcnVolPatchPath) = Content(ap.pre, PatchPath)

\* the copy in tcnVol existed when the call was made, and the computation of
\* its MD5 has failed
UnreadableCopy ==
    /\ FileExists(ap.pre, TcnVolPatchPath)
    /\ PastCheckTcnVol
    /\ ap.existingMD5 = NoHash

\* the operations the current call has performed
OpsDone == { st.op : st \in StepsDone }

\* Goroutines the legacy command registered with wg.Add and has started
LegStarted ==
    Cardinality({ x \in LegWatchers : leg.w[x].pc # "none" })
      + (IF leg.trace.pc # "none" THEN 1 ELSE 0)
      + (IF leg.pcap.pc # "none" THEN 1 ELSE 0)
      + (IF leg.pybot # "none" THEN 1 ELSE 0)
      + (IF leg.mon # "none" THEN 1 ELSE 0)

\* All of them have returned
LegAllDone ==
    /\ \A x \in LegWatchers : leg.w[x].pc = "done"
    /\ leg.trace.pc = "done"
    /\ leg.pcap.pc = "done"
    /\ leg.pybot = "done"
    /\ leg.mon = "done"

\* ------------------------------------------------------------------- claims
\* C1: in Collector.StartCollection and in the legacy StartSymptomCollection,
\* whenever namespace or deployment validation fails, no task goroutine
\* is ever started, nothing is registered with the wait group, no ErrorEvent
\* is ever sent, and the call ends with the validation error (returned by
\* StartCollection, written by the log.Fatalf that ends the legacy command).
C1_NoTaskWhenValidationFails ==
    /\ (orch # "notCalled" /\ ValidationFails) =>
          /\ NothingStarted
          /\ wg = 0
          /\ chanState = "none"
          /\ errorChan = << >>
          /\ \A w \in Watchers : report[w] = << >>
          /\ \A w \in Watchers : watcher[w].detected = 0 /\ watcher[w].sent = 0
          /\ orch \in {"validateNamespace", "validateDeployments", "failed"}
          /\ orch = "failed" =>
                result[1] \in {"namespace validation failed",
                               "deployment validation failed"}
    /\ (leg.pc \notin {"idle", "start", "rejected", "died"}
          /\ LegValidationFails) =>
          /\ LegNothingStarted
          /\ leg.wg = 0
          /\ leg.chan = << >>
          /\ leg.logged = << >>
          /\ leg.closes = 0
          /\ \A x \in LegWatchers : leg.w[x].sent = 0
          /\ leg.pc \in {"validateNamespace", "validateDeployments", "fatal"}
          /\ leg.pc = "fatal" =>
                /\ leg.fatal[1] \in {"Namespace validation failed",
                                     "Deployment validation failed"}
                /\ leg.fatal[2] \in
                      { validateNamespace(cluster),
                        LegacyValidateDeployments(cluster, pods) } \ {"ok"}

\* The legacy command was run against a cluster whose matching deployment
\* is not ready, and ended with the deployment validation error.
C1_Witness ==
    /\ leg.pc = "fatal"
    /\ leg.fatal = << "Deployment validation failed",
                      "deployment is not ready" >>
    /\ LegValidationFails
    /\ LegNothingStarted
    /\ leg.wg = 0

\* C2: in every session that reaches Closed the error channel is closed
\* exactly once, and it is closed only after every started task (trace,
\* pcap, exerciser, each log watcher, the cleanup monitor) has finished.
C2_ClosedOnceAfterAllTasks ==
    /\ closeCount <= 1
    /\ orch # "panic"
    /\ chanState = "closed" => AllTasksFinished /\ wg = 0
    /\ Closed => closeCount = 1 /\ chanState = "closed"

C2_Witness ==
    /\ Closed
    /\ closeCount = 1
    /\ \E w \in Watchers : watcher[w].sent > 0

\* C3: under every interleaving no log watcher sends on the error channel
\* after it has been closed (the send-on-closed-channel panic is unreachable).
C3_NoSendOnClosedChannel ==
    \A w \in Watchers :
        /\ watcher[w].pc # "panic"
        /\ chanState = "closed" => watcher[w].pc \notin {"select", "send"}

C3_Witness ==
    /\ chanState = "closed"
    /\ \A w \in Watchers : watcher[w].sent > 0

\* C4: every session whose validation succeeds eventually reaches Closed
\* without the caller ever cancelling the context (context.Background()).
C4_SessionClosesWithoutCancel ==
    Validated ~> (Closed \/ ctxDone)

\* C5: cleanup never starts before the exerciser (executePybot) has completed,
\* and once the exerciser has completed Routine 9 is free to start cleanup:
\* no fixed delay of its own holds it back.
C5_DrainingFollowsExerciser ==
    /\ mon.pc \in {"cleanup", "done"} => pybot.pc = "done"
    /\ (pybot.pc = "done" /\ mon.pc = "sleep") => MonitorAwake(mon, now)

\* C6: once the session timeout (symptom.collection_timeout) has elapsed the
\* session drains: all tasks stop and the session is closed.
C6_TimeoutEndsSession ==
    (Validated /\ now >= CollectionTimeout) ~> (AllTasksFinished /\ Closed)

\* C7: once the context is cancelled every started log watcher eventually
\* returns (also one blocked on a full channel), and a watcher that has
\* observed the signal and returned sends or detects nothing any more.
C7_WatchersStopOnSignal ==
    /\ \A w \in Watchers :
          (ctxDone /\ watcher[w].pc # "none") ~> (watcher[w].pc = "done")
    /\ [][\A w \in Watchers :
             watcher[w].pc = "done" =>
                /\ watcher'[w] = watcher[w]
                /\ \A n \in 1..MaxEvents : InChannel(w, n)' => InChannel(w, n)
         ]_vars

C7_Witness ==
    /\ ctxDone
    /\ \E w \in Watchers : BlockedOnFull(w)

\* C8: cleanup (Collector.cleanup) runs only after every other task (trace,
\* pcap, exerciser, all log watchers) has terminated.
C8_CleanupAfterAllSources ==
    mon.pc = "cleanup" => SourcesFinished

\* C9: a watcher that detects an event while the channel is full stays at the
\* send until a slot is free; no detected event is discarded (each one is
\* pending in its watcher, buffered, or reported) and the buffer never holds
\* more than its capacity.
C9_BackpressureBlocks ==
    /\ Len(errorChan) <= ChanCap
    /\ \A w \in Watchers :
          /\ watcher[w].pc = "send" => watcher[w].sent = watcher[w].detected - 1
          /\ watcher[w].pc # "send" => watcher[w].sent = watcher[w].detected
          /\ \A n \in 1..watcher[w].sent : InChannel(w, n) \/ InReport(w, n)

C9_Witness ==
    /\ Len(errorChan) = ChanCap
    /\ \E w \in Watchers : BlockedOnFull(w)

\* C10: every event a watcher sent is forwarded to the report exactly once,
\* and when StartCollection has returned every sent event has been forwarded
\* and none is left in the channel.
C10_AllEventsReportedAtClose ==
    /\ \A w \in Watchers : \A i, j \in 1..Len(report[w]) :
          report[w][i] = report[w][j] => i = j
    /\ Closed =>
          /\ errorChan = << >>
          /\ \A w \in Watchers : \A n \in 1..watcher[w].sent : InReport(w, n)

\* C11: the exerciser (executePybot) is started only after the trace and pcap
\* sources and every log watcher have been started: whenever the exerciser
\* runs, all log watchers are already running.
C11_ExerciserStartsAfterWatchers ==
    pybot.pc # "none" =>
        /\ trace.pc # "none"
        /\ pcap.pc # "none"
        /\ \A w \in Watchers : watcher[w].pc # "none"

\* C12: wait-group discipline.  The counter is never negative and counts
\* exactly the started tasks that have not signalled Done (so each task was
\* added before it could signal); every task has been started and added when
\* wg.Wait is reached; and when wg.Wait has returned as many tasks have
\* signalled Done as were started.
C12_WaitGroupDiscipline ==
    /\ wg >= 0
    /\ wg = NumStarted - NumDone
    /\ AtOrPastWait => NumStarted = NumWatchers + 4
    /\ PastWait => NumDone = NumStarted /\ wg = 0

C12_Witness ==
    /\ PastWait
    /\ NumStarted = NumWatchers + 4
    /\ NumDone = NumStarted

\* C13 as stated: validation succeeds only if the namespace exists and, for
\* every requested fragment, exactly one deployment's name contains it and
\* that deployment has at least as many ready as desired replicas.
C13_SuccessNeedsExactlyOneMatch ==
    Validated =>
        /\ cluster.nsExists
        /\ \A k \in 1..Len(pods) :
              /\ Cardinality(Matches(cluster.deps, pods[k])) = 1
              /\ \A i \in Matches(cluster.deps, pods[k]) :
                    FoundReady(cluster, i)

\* C13: validation succeeds only if the namespace exists and, for every
\* requested fragment, at least one deployment's name contains it and the
\* first such deployment in list order has, when the readiness check fetches
\* it, at least as many ready as desired replicas.
C13_SuccessNeedsFirstMatchReady ==
    Validated =>
        /\ cluster.nsExists
        /\ \A k \in 1..Len(pods) :
              /\ Matches(cluster.deps, pods[k]) # {}
              /\ FoundReady(cluster, FirstMatch(cluster.deps, pods[k]))

C13_Witness ==
    /\ Validated
    /\ \E k \in 1..Len(pods) :
          /\ Cardinality(Matches(cluster.deps, pods[k])) = 2
          /\ \E i \in Matches(cluster.deps, pods[k]) :
                ~FoundReady(cluster, i)

\* C14 as stated: validation fails with the namespace error whenever the
\* namespace does not exist; otherwise with deployment-not-found when some
\* fragment is contained in no deployment name; otherwise with
\* deployment-not-ready whenever a deployment matching a fragment has fewer
\* ready than desired replicas.
C14_ErrorByKindPriority ==
    /\ (orch \notin {"validateNamespace", "validateDeployments"}
          /\ (~cluster.nsExists
               \/ \E k \in 1..Len(pods) : \E i \in Matches(cluster.deps, pods[k]) :
                      /\ ~cluster.live[i].err
                      /\ ~cluster.live[i].nil
                      /\ cluster.live[i].ready < cluster.live[i].desired))
         => orch = "failed"
    /\ orch = "failed" =>
          IF ~cluster.nsExists
          THEN result = << "namespace validation failed",
                           "namespace does not exist" >>
          ELSE IF \E k \in 1..Len(pods) : Matches(cluster.deps, pods[k]) = {}
          THEN result = << "deployment validation failed",
                           "deployment not found" >>
          ELSE result = << "deployment validation failed",
                           "deployment is not ready" >>

\* C14: validation fails with the namespace error whenever the namespace does
\* not exist; otherwise with the list error when the deployments cannot be
\* listed; otherwise it fails exactly when some fragment is rejected, with
\* the error of the first rejected fragment in argument order:
\* deployment-not-found if no deployment name contains that fragment, and for
\* the first deployment containing it the error of the readiness check if
\* fetching it fails, deployment-not-ready if it has fewer ready than desired
\* replicas (the call ends in a nil dereference, with no error returned, if
\* it has no replica count).
C14_ErrorOfFirstRejectedFragment ==
    /\ (orch \notin {"validateNamespace", "validateDeployments"}
          /\ (~cluster.nsExists \/ ~cluster.listOk
               \/ FirstRejected(cluster, pods) # 0))
         => orch \in {"failed", "crashed"}
    /\ orch = "crashed" =>
          /\ cluster.nsExists /\ cluster.listOk
          /\ FirstRejected(cluster, pods) # 0
          /\ PodOutcome(cluster, pods[FirstRejected(cluster, pods)]) = "panic"
    /\ orch = "failed" =>
          IF ~cluster.nsExists
          THEN result = << "namespace validation failed",
                           "namespace does not exist" >>
          ELSE IF ~cluster.listOk
          THEN result = << "deployment validation failed",
                           "failed to list deployments" >>
          ELSE /\ FirstRejected(cluster, pods) # 0
               /\ PodOutcome(cluster, pods[FirstRejected(cluster, pods)])
                     # "panic"
               /\ result =
                    << "deployment validation failed",
                       PodOutcome(cluster, pods[FirstRejected(cluster, pods)]) >>

C14_Witness ==
    /\ orch = "failed"
    /\ cluster.nsExists
    /\ result[2] = "deployment is not ready"
    /\ \E k \in 1..Len(pods) : Matches(cluster.deps, pods[k]) = {}

\* C15: StartCollection returns a non-nil error if and only if preflight
\* validation failed; once validation has passed no step of any task makes
\* the call return an error; the CLI exits 0 for a Closed session and
\* non-zero for a validation failure.
C15_ErrorIffValidationFailed ==
    /\ result # "none" <=> orch \in {"failed", "returned"}
    /\ result # "none" => (result # "nil" <=> ValidationFails)
    /\ Validated => result \in {"none", "nil"}
    /\ Closed => result = "nil" /\ ExitStatus(result) = 0
    /\ orch = "failed" => ValidationFails /\ ExitStatus(result) # 0

C15_Witness ==
    /\ Closed
    /\ ExitStatus(result) = 0
    /\ ctxDone
    /\ \E w \in Watchers : watcher[w].sent > 0

\* C16: the consumer receives the events of one log watcher in the order the
\* watcher sent them: the n-th event logged for a source is the n-th event
\* that watcher sent, and the events of one watcher still buffered are in
\* sending order behind everything already logged for it.  Events of
\* different watchers are kept in no particular order.
C16_PerWatcherFifo ==
    \A w \in Watchers :
        /\ \A i \in 1..Len(report[w]) : report[w][i] = i
        /\ \A i, j \in 1..Len(errorChan) :
              (i < j /\ errorChan[i].source = w /\ errorChan[j].source = w)
                  => errorChan[i].seq < errorChan[j].seq
        /\ \A i \in 1..Len(errorChan) :
              errorChan[i].source = w => errorChan[i].seq > Len(report[w])

C16_Witness ==
    /\ \E w \in Watchers : Len(report[w]) >= 2
    /\ \A w \in Watchers : Len(report[w]) >= 1
    /\ errorChan = << >>

\* C17: the error channel is closed and StartCollection returns only after
\* cleanup has completed; cleanup is entered at most once, only by Routine 9
\* leaving its sleep, and Routine 9 finishes only through it; and in every
\* session that passes validation cleanup is eventually executed.
C17_CleanupOnceBeforeClose ==
    /\ []((chanState = "closed" \/ orch \in {"return", "returned"})
             => mon.pc = "done")
    /\ [][/\ (mon'.pc = "cleanup" /\ mon.pc # "cleanup") => mon.pc = "sleep"
          /\ (mon'.pc = "done" /\ mon.pc # "done") => mon.pc = "cleanup"
          /\ mon.pc = "cleanup" => mon'.pc \in {"cleanup", "done"}
          /\ mon.pc = "done" => mon'.pc = "done"
         ]_vars
    /\ Validated ~> (mon.pc = "done")

C17_Witness ==
    /\ orch = "return"
    /\ chanState = "closed"
    /\ mon.pc = "done"
    /\ consumer = "range"

\* C18: a log watcher emits an ErrorEvent only for content that contains one
\* of the configured keywords as a case-sensitive substring: a watcher has
\* detected at most as many events as its file received matching lines, and
\* a path that received only "Error" yields no event.
C18_EventsOnlyForKeywordLines ==
    \A w \in Watchers : watcher[w].detected <= MatchingLines(w)

\* C19: every ErrorEvent carries the path of the watcher that produced it,
\* and a watcher produces events only for matching lines on its own path:
\* with matching lines written to one path only, no other source ever has an
\* event, and at Closed that source's count is the number of matching lines.
C19_CountsPerSourceMatchInjectedLines ==
    /\ \A i \in 1..Len(errorChan) :
          /\ errorChan[i].source \in Watchers
          /\ errorChan[i].seq <= watcher[errorChan[i].source].detected
    /\ \A w \in Watchers :
          Len(report[w]) + Cardinality({ i \in 1..Len(errorChan) :
                                          errorChan[i].source = w })
              <= MatchingLines(w)
    /\ Closed => \A w \in Watchers : Len(report[w]) = MatchingLines(w)

\* C20: within one ApplyPatch call the service is restarted at most once and
\* only after every file step performed (directory, copy, library update)
\* has succeeded; health is monitored only straight after a successful
\* restart; the call returns nil only if the health monitor succeeded; and a
\* step that fails is the last one performed and the call returns an error.
C20_PatchStepsInOrder ==
    LET n == Len(steps)
        At(op) == { i \in 1..n : steps[i].op = op }
    IN  /\ Cardinality(At("restart")) <= 1
        /\ \A i \in At("restart") : \A j \in 1..n :
              /\ j < i => steps[j].op \in {"md5", "mkdir", "copy", "library"}
                           /\ steps[j].ok
              /\ j > i => steps[j].op = "monitor"
        /\ \A i \in At("monitor") :
              i > 1 /\ steps[i - 1] = Step("restart", TRUE)
        /\ apResult = "nil" => n > 0 /\ steps[n] = Step("monitor", TRUE)
        /\ \A i \in 1..n : ~steps[i].ok =>
              /\ i = n
              /\ ap.pc = "returned"
              /\ apResult \notin {"none", "nil"}

C20_Witness ==
    /\ apResult = "nil"
    /\ Step("copy", TRUE) \in { steps[i] : i \in 1..Len(steps) }
    /\ Step("library", TRUE) \in { steps[i] : i \in 1..Len(steps) }
    /\ fs[LibPath] = Link(TcnVolPatchPath)

\* C21: in a call that found no copy of the patch in tcnVol, the library in
\* lib64 is backed up and re-linked only if it exists and its MD5 differs
\* from the patch's MD5: the library step changes no file when the library's
\* MD5 equals the patch's.
C21_LibraryUpdatedOnlyIfMD5Differs ==
    [][(ap.pc = "library" /\ ~FileExists(ap.pre, TcnVolPatchPath) /\ fs' # fs)
          => /\ Openable(fs, LibPath)
             /\ MD5Of(fs[Target(fs, LibPath)].data) # ap.patchMD5
      ]_vars

\* C26: whenever an ApplyPatch call with backups enabled has replaced the
\* library by a symlink, a backup file exists that holds the content the
\* library had when the call was made.
C26_BackupHoldsOldLibrary ==
    (backupEnabled /\ Step("library", TRUE) \in StepsDone)
        => BackedUp(fs, Content(ap.pre, LibPath))

\* C27 as stated: when the copy in tcnVol has the same MD5 as the patch, the
\* call changes no file, and a call that has returned has restarted the
\* service and, after a successful restart, monitored its health.
C27_SameMD5ChangesNoFile ==
    SameCopyAtCall =>
        /\ fs = ap.pre
        /\ ap.pc = "returned" =>
              /\ "restart" \in OpsDone
              /\ Step("restart", TRUE) \in StepsDone => "monitor" \in OpsDone

\* C27: when the copy in tcnVol has the patch's content and ApplyPatch has
\* computed both MD5s (and so found them equal), the call changes no file
\* and performs no file step, and once returned it has restarted the service
\* and, after a successful restart, monitored its health.
C27_ComputedSameMD5ChangesNoFile ==
    (SameCopyAtCall /\ PastCheckTcnVol /\ ap.existingMD5 # NoHash) =>
        /\ ap.existingMD5 = ap.patchMD5
        /\ fs = ap.pre
        /\ OpsDone \subseteq {"md5", "restart", "monitor"}
        /\ ap.pc = "returned" =>
              /\ "restart" \in OpsDone
              /\ Step("restart", TRUE) \in StepsDone => "monitor" \in OpsDone

C27_Witness ==
    /\ calls = 2
    /\ apResult = "nil"
    /\ ap.existingMD5 = ap.patchMD5
    /\ fs = ap.pre
    /\ fs[LibPath] = Link(TcnVolPatchPath)
    /\ BackedUp(fs, "v0")

\* C28: a call made with a patch path at which there is no file (nothing, a
\* dangling link, or a path that cannot be looked up) changes no file, never
\* reaches a file step, the restart or the monitor, and returns an error.
C28_MissingPatchChangesNothing ==
    (ap.pc # "idle" /\ ~Openable(ap.pre, PatchPath)) =>
        /\ fs = ap.pre
        /\ ap.pc \in {"checkPatch", "md5", "returned"}
        /\ OpsDone \subseteq {"md5"}
        /\ ap.pc = "returned" => apResult \in {"patch file does not exist",
                                                "failed to calculate MD5"}

C28_Witness ==
    /\ ap.pc = "returned"
    /\ apResult = "patch file does not exist"
    /\ ap.pre[PatchPath] = Absent
    /\ Openable(fs, TcnVolPatchPath)
    /\ Openable(fs, LibPath)

\* C22: a CopyFile call that returns no error leaves a destination that
\* exists and holds the content the source had, and leaves the source as it
\* was. (Violated: copying a file onto itself, by the same path or through a
\* link, truncates it and reports success.)
C22_CopyFileCopies ==
    (util.op = "CopyFile" /\ ~util.err) =>
        /\ FileExists(fs, util.b)
        /\ Content(fs, util.b) = Content(util.pre, util.a)
        /\ fs[Target(util.pre, util.a)] = util.pre[Target(util.pre, util.a)]

\* C23: FileExists returns true exactly when a file exists at the path: true
\* for an existing file, false where nothing exists or can be reached.
\* (Violated: a path whose lookup fails with an error other than "does not
\* exist" is reported as existing.)
C23_FileExistsIffFile ==
    util.op = "FileExists" =>
        (util.ok <=> fs[Target(fs, util.a)].kind = "file")

\* C24: CalculateMD5 returns an error and the empty hash for a path that
\* cannot be opened, and a non-empty hash and no error for a readable file;
\* VerifyChecksum of a readable file against the hash computed for a file of
\* equal content (the file itself included) is true.
C24_MD5AndVerify ==
    /\ util.op = "CalculateMD5" =>
          /\ ~Openable(fs, util.a) => util.err /\ util.md5 = NoHash
          /\ (Openable(fs, util.a) /\ util.out = "ok") =>
                 ~util.err /\ util.md5 # NoHash
    /\ ( /\ util.op = "VerifyChecksum"
         /\ util.out = "ok"
         /\ util.expected # NoHash
         /\ Openable(fs, util.a)
         /\ Content(fs, util.a) = Content(fs, util.b) ) =>
          util.ok /\ ~util.err

\* Two different files of equal content: the hash of one verifies the other,
\* in a file system that also holds a path CalculateMD5 cannot open
C24_Witness ==
    /\ util.op = "VerifyChecksum"
    /\ util.ok
    /\ Target(fs, util.a) # Target(fs, util.b)
    /\ \E path \in UtilPaths : CalculateMD5(fs, path, TRUE).err

\* C29: CreateSymlink(target, linkPath) on a linkPath occupied by a regular
\* file or by a link, valid or dangling, whose system calls do not fail for
\* another reason, returns no error and leaves linkPath a link to target; and
\* the same call made again after a successful one succeeds and changes
\* nothing. (Violated: a dangling link is not seen by FileExists, is not
\* removed, and os.Symlink fails on it.)
C29_CreateSymlinkReplaces ==
    (util.op = "CreateSymlink" /\ util.out = "ok") =>
        /\ util.pre[util.b].kind \in {"file", "link"} =>
              ~util.err /\ fs[util.b] = Link(util.a)
        /\ (util.prevSame /\ ~util.prevErr) =>
              ~util.err /\ fs = util.pre

\* C25: a watcher started from a configuration with no keywords works with
\* the eight keywords error, ERROR, fatal, FATAL, exception, EXCEPTION, panic,
\* PANIC; one started with a zero check interval polls every second; and with
\* no log paths configured the watchers are started for the five fixed paths,
\* in order, one per path, exactly five once the loop is over.
C25_DefaultsUsed ==
    /\ \A i \in 1..Len(conf.started) :
          conf.started[i].pc = "watching" =>
             /\ Len(conf.keywords) = 0 =>
                   /\ Len(conf.started[i].keywords) = 8
                   /\ { conf.started[i].keywords[k] : k \in 1..8 } = Keywords
             /\ conf.interval = 0 => conf.started[i].interval = 1000
    /\ Len(conf.logPaths) = 0 =>
          /\ Len(conf.started) <= 5
          /\ \A i \in 1..Len(conf.started) :
                conf.started[i].path =
                   << "/cmconfig.log", "/logstore/TspCore", "/RTPTraceError",
                      "/Envoy", "/dumplog" >>[i]
          /\ conf.pc = "started" => Len(conf.started) = 5

\* Nothing configured, the loop over, and all five watchers at work
C25_Witness ==
    /\ conf.pc = "started"
    /\ conf.logPaths = << >>
    /\ conf.keywords = << >>
    /\ conf.interval = 0
    /\ Len(conf.started) = 5
    /\ \A i \in 1..5 : conf.started[i].pc = "watching"

\* C30: the symptom command never gets past the preflight validation with an
\* empty list of pod fragments or with an empty fragment. (Violated: only the
\* empty argument is rejected; a blank argument gives the symptom subcommand
\* an empty list, which validates vacuously, and a leading, trailing or
\* doubled space gives the legacy command an empty fragment, which every
\* deployment name contains.)
C30_NoEmptyPodsValidated ==
    (cli.pc = "collecting" /\ Validated) =>
        /\ Len(pods) > 0
        /\ \A k \in 1..Len(pods) : Len(pods[k]) > 0

\* C31: NamespaceExists never returns an error: whenever GetNamespace fails,
\* for a missing namespace as for an unreachable or refusing API, it returns
\* (false, nil), and validateNamespace fails with "namespace does not exist";
\* no run fails with the error of the lookup itself.
C31_NamespaceExistsNeverErrs ==
    ns.pc = "done" =>
        /\ ns.err = "nil"
        /\ ns.exists <=> ns.got = "nil"
        /\ ns.got # "nil" =>
              /\ orch = "failed"
              /\ result = << "namespace validation failed",
                             "namespace does not exist" >>
        /\ ns.got = "nil" => orch # "failed" \/ result[1] # "namespace validation failed"
        /\ result # "none" /\ result # "nil" =>
              result[2] \notin {"Unreachable", "Forbidden", "NotFound"}

\* The namespace exists, the API cannot be reached, and the run has failed
\* with "namespace does not exist"
C31_Witness ==
    /\ ns.pc = "done"
    /\ ns.api = "unreachable"
    /\ cluster.nsExists
    /\ ~ns.exists
    /\ result = << "namespace validation failed", "namespace does not exist" >>

\* C32: in every session that reaches close(errorChan) the error monitoring
\* goroutine terminates: it ends only with the channel closed and empty,
\* having logged every event that was sent; once the channel is closed no
\* watcher is left at a send; and from the close on the goroutine eventually
\* ends.
C32_ConsumerTerminates ==
    /\ [](consumer = "done" =>
            /\ chanState = "closed"
            /\ errorChan = << >>
            /\ \A w \in Watchers : Len(report[w]) = watcher[w].sent)
    /\ [](chanState = "closed" =>
            \A w \in Watchers : watcher[w].pc \in {"none", "done"})
    /\ (chanState = "closed") ~> (consumer = "done")

\* The channel is closed with an event still buffered and the goroutine still
\* in its range loop
C32_Witness ==
    /\ chanState = "closed"
    /\ Len(errorChan) > 0
    /\ consumer = "range"

\* C33: the legacy StartSymptomCollection terminates once validation has
\* passed. Every watcher sends at most one event, and exactly one by the time
\* it returns, which it does after its last poll; the main goroutine waits
\* with all watchers and the four other tasks registered; the wait is over
\* only when all of them have returned; the channel is closed at most once;
\* the buffer never holds more than one event per watcher, which is within
\* its capacity, so a watcher at its send is never blocked, also with the
\* consumer not yet started; and the command eventually returns.
C33_LegacyTerminates ==
    /\ [](\A x \in LegWatchers :
            /\ leg.w[x].sent <= 1
            /\ leg.w[x].pc = "done" =>
                  leg.w[x].sent = 1 /\ leg.w[x].i = LegPolls)
    /\ [](leg.pc \in {"wait", "close", "returned"} =>
            LegStarted = NumLegWatchers + 4)
    /\ [](leg.pc \in {"close", "returned"} => LegAllDone /\ leg.wg = 0)
    /\ [](leg.closes <= 1)
    /\ [](/\ Len(leg.chan) <= NumLegWatchers
          /\ NumLegWatchers <= LegChanCap
          /\ \A x \in LegWatchers :
                leg.w[x].pc = "send" =>
                   Len(leg.chan) < LegChanCap /\ leg.closes = 0)
    /\ <>(leg.pc = "returned" /\ leg.closes = 1)

\* Every watcher has sent its event before the consumer was started, and the
\* command has returned
C33_Witness ==
    /\ leg.pc = "returned"
    /\ leg.closes = 1
    /\ LegAllDone
    /\ Len(leg.chan) + Len(leg.logged) = NumLegWatchers
    /\ Len(leg.chan) > 0

\* C34: a call of ExecuteCommandWithTimeout returns either the timeout error
\* with empty output, and then the timer has fired, or the command's own
\* output with nil or its error wrapped; the worker is never held at its send
\* by a full channel; and once the call has returned the worker goroutine
\* eventually ends. (Violated: when the timer fires before the worker has
\* started the process, cmd.Process is nil, nothing is killed, and the worker
\* stays in CombinedOutput for as long as the command runs.)
C34_TimeoutOrResultNoLeak ==
    /\ [](cmd.caller = "returned" =>
            \/ /\ cmd.ret = [out |-> "", err |-> "command timeout"]
               /\ cmd.timer = "fired"
            \/ /\ cmd.worker = "done"
               /\ cmd.ret.out = cmd.output
               /\ cmd.ret.err = IF cmd.err = "nil" THEN "nil"
                                ELSE "command failed")
    /\ [](cmd.worker = "send" => Len(cmd.done) < DoneCap)
    /\ (cmd.caller = "returned") ~> (cmd.worker = "done")

\* C35: when the copy in tcnVol exists and its MD5 cannot be computed,
\* ApplyPatch does not fail on that: it never returns an MD5 error and never
\* skips the copy; it goes on as for a differing copy, without creating the
\* directory; a copy that went through leaves the tcnVol copy with the
\* patch's content; and the restart is reached only after that copy and, if
\* the library exists, after the library was updated.
C35_UnreadableCopyIsOverwritten ==
    UnreadableCopy =>
        /\ apResult # "failed to calculate MD5"
        /\ ap.pc \notin {"ensureDir", "copy"}
        /\ "mkdir" \notin OpsDone
        /\ ap.pc = "updateCopy" \/ "copy" \in OpsDone
        /\ Step("copy", TRUE) \in StepsDone =>
              MD5Of(Content(fs, TcnVolPatchPath)) = ap.patchMD5
        /\ (ap.pc \in {"restart", "monitor"} \/ "restart" \in OpsDone) =>
              /\ Step("copy", TRUE) \in StepsDone
              /\ FileExists(ap.pre, LibPath) =>
                    Step("library", TRUE) \in StepsDone

\* A call that could not read the differing copy it found has overwritten
\* it, updated the library and returned nil
C35_Witness ==
    /\ UnreadableCopy
    /\ apResult = "nil"
    /\ Content(ap.pre, TcnVolPatchPath) # Content(ap.pre, PatchPath)
    /\ Content(fs, TcnVolPatchPath) = Content(ap.pre, PatchPath)
    /\ Step("library", TRUE) \in StepsDone
    /\ fs[LibPath] = Link(TcnVolPatchPath)

====
